---- MODULE Spec2Model ----
(***************************************************************************)
(* Table-driven LR(1) calculator: grammar analysis (FIRST/FOLLOW), the     *)
(* canonical collection of LR(1) item sets, the action/goto tables, the    *)
(* shift-reduce driver, evaluation of the syntax tree, and the lexer.      *)
(***************************************************************************)
EXTENDS Integers, Sequences, FiniteSets, TLC

VARIABLES
    pc,            \* position of the pipeline: first, follow, states, tables, ready, parsing, accept, error, evaluated
    seed,          \* the process-wide hash seed that fixes the iteration order of hash maps and sets
    first_sets,    \* Grammar.first_sets
    follow_sets,   \* Grammar.follow_sets
    states,        \* LrTable.states (during construct_states: the local vector)
    queue,         \* the worklist of construct_states
    table_index,   \* construct_tables: the number of states its loop has handled
    action_table,  \* LrTable.action_table
    goto_table,    \* LrTable.goto_table
    tokens,        \* the tokens the token stream has delivered so far; the last one is the current terminal
    state_stack,   \* the driver's stack of state ids
    value_stack,   \* the driver's parallel stack of tokens and syntax trees
    outcome,       \* what the parse call returned: None while it runs, then Some(ParseResult<Expr>)
    eval_result,   \* what calculator::evaluate returned: None, then Some(ParseResult<f64>)
    lexer,         \* the Lexer struct: input, current, line, column
    lexer_tokens,  \* Lexer::tokenize: its local vector tokens
    lexer_result   \* what Lexer::tokenize returned: None while it runs, then Some(ParseResult<Vec<Token>>)

vars == <<pc, seed, first_sets, follow_sets, states, queue, table_index, action_table,
          goto_table, tokens, state_stack, value_stack, outcome, eval_result,
         lexer, lexer_tokens, lexer_result>>

lexer_vars == <<lexer, lexer_tokens, lexer_result>>

-----------------------------------------------------------------------------
(* Bounds of the model *)

\* number of hash seeds explored (seeds 0 .. NumSeeds-1)
NumSeeds == 2
\* longest token sequence, not counting the closing Eof
MaxLen == 5
\* number literals carry a value in 0 .. MaxVal
MaxVal == 1
\* the longest input string of the lexer, in characters
MaxChars == 3

-----------------------------------------------------------------------------
(* token.rs, grammar.rs: symbols and productions *)

Terminals ==
    {"Number", "Plus", "Minus", "Star", "Slash", "LeftParen", "RightParen", "Eof"}

NonTerminals == {"Start", "Expr", "Term", "Factor"}

Symbols == Terminals \cup NonTerminals

\* Faulty variants of the production list: productions 1 and 4 with their
\* operators exchanged; productions 1 and 2 written right-recursively; the
\* unary minus of production 9 put on Expr instead of Factor.
productions_LevelsExchanged ==
    << [id |-> 0, lhs |-> "Start",  rhs |-> <<"Expr">>],
       [id |-> 1, lhs |-> "Expr",   rhs |-> <<"Expr", "Star", "Term">>],
       [id |-> 2, lhs |-> "Expr",   rhs |-> <<"Expr", "Minus", "Term">>],
       [id |-> 3, lhs |-> "Expr",   rhs |-> <<"Term">>],
       [id |-> 4, lhs |-> "Term",   rhs |-> <<"Term", "Plus", "Factor">>],
       [id |-> 5, lhs |-> "Term",   rhs |-> <<"Term", "Slash", "Factor">>],
       [id |-> 6, lhs |-> "Term",   rhs |-> <<"Factor">>],
       [id |-> 7, lhs |-> "Factor", rhs |-> <<"LeftParen", "Expr", "RightParen">>],
       [id |-> 8, lhs |-> "Factor", rhs |-> <<"Number">>],
       [id |-> 9, lhs |-> "Factor", rhs |-> <<"Minus", "Factor">>] >>

productions_RightRecursive ==
    << [id |-> 0, lhs |-> "Start",  rhs |-> <<"Expr">>],
       [id |-> 1, lhs |-> "Expr",   rhs |-> <<"Term", "Plus", "Expr">>],
       [id |-> 2, lhs |-> "Expr",   rhs |-> <<"Term", "Minus", "Expr">>],
       [id |-> 3, lhs |-> "Expr",   rhs |-> <<"Term">>],
       [id |-> 4, lhs |-> "Term",   rhs |-> <<"Term", "Star", "Factor">>],
       [id |-> 5, lhs |-> "Term",   rhs |-> <<"Term", "Slash", "Factor">>],
       [id |-> 6, lhs |-> "Term",   rhs |-> <<"Factor">>],
       [id |-> 7, lhs |-> "Factor", rhs |-> <<"LeftParen", "Expr", "RightParen">>],
       [id |-> 8, lhs |-> "Factor", rhs |-> <<"Number">>],
       [id |-> 9, lhs |-> "Factor", rhs |-> <<"Minus", "Factor">>] >>

productions_MinusOnExpr ==
    << [id |-> 0, lhs |-> "Start",  rhs |-> <<"Expr">>],
       [id |-> 1, lhs |-> "Expr",   rhs |-> <<"Expr", "Plus", "Term">>],
       [id |-> 2, lhs |-> "Expr",   rhs |-> <<"Expr", "Minus", "Term">>],
       [id |-> 3, lhs |-> "Expr",   rhs |-> <<"Term">>],
       [id |-> 4, lhs |-> "Term",   rhs |-> <<"Term", "Star", "Factor">>],
       [id |-> 5, lhs |-> "Term",   rhs |-> <<"Term", "Slash", "Factor">>],
       [id |-> 6, lhs |-> "Term",   rhs |-> <<"Factor">>],
       [id |-> 7, lhs |-> "Factor", rhs |-> <<"LeftParen", "Expr", "RightParen">>],
       [id |-> 8, lhs |-> "Factor", rhs |-> <<"Number">>],
       [id |-> 9, lhs |-> "Expr",   rhs |-> <<"Minus", "Expr">>] >>

\* productions[id + 1] is the production with that id
productions ==
    << [id |-> 0, lhs |-> "Start",  rhs |-> <<"Expr">>],
       [id |-> 1, lhs |-> "Expr",   rhs |-> <<"Expr", "Plus", "Term">>],
       [id |-> 2, lhs |-> "Expr",   rhs |-> <<"Expr", "Minus", "Term">>],
       [id |-> 3, lhs |-> "Expr",   rhs |-> <<"Term">>],
       [id |-> 4, lhs |-> "Term",   rhs |-> <<"Term", "Star", "Factor">>],
       [id |-> 5, lhs |-> "Term",   rhs |-> <<"Term", "Slash", "Factor">>],
       [id |-> 6, lhs |-> "Term",   rhs |-> <<"Factor">>],
       [id |-> 7, lhs |-> "Factor", rhs |-> <<"LeftParen", "Expr", "RightParen">>],
       [id |-> 8, lhs |-> "Factor", rhs |-> <<"Number">>],
       [id |-> 9, lhs |-> "Factor", rhs |-> <<"Minus", "Factor">>] >>

start_symbol == "Start"

ProductionIds == 0 .. (Len(productions) - 1)

Production(id) == productions[id + 1]

\* Grammar::productions_for: the ids of the productions of a non-terminal
productions_for(non_terminal) ==
    {id \in ProductionIds : Production(id).lhs = non_terminal}

\* Grammar::can_derive_epsilon: the grammar has no epsilon productions
can_derive_epsilon(symbol) == FALSE

\* Grammar::sequence_can_derive_epsilon
sequence_can_derive_epsilon(symbols) ==
    \A i \in 1 .. Len(symbols) : can_derive_epsilon(symbols[i])

\* symbols[from ..], the Rust slice rhs[from - 1 ..]
Suffix(symbols, from) == SubSeq(symbols, from, Len(symbols))

-----------------------------------------------------------------------------
(* grammar.rs: FIRST and FOLLOW *)

\* the scan of one right-hand side in compute_first_sets / first_of_sequence:
\* union FIRST of the symbols, stopping after the first that cannot derive epsilon
RECURSIVE FirstScan(_, _, _)
FirstScan(fs, symbols, i) ==
    IF i > Len(symbols) THEN {}
    ELSE fs[symbols[i]] \cup
         (IF can_derive_epsilon(symbols[i]) THEN FirstScan(fs, symbols, i + 1) ELSE {})

\* Grammar::first_of_sequence
first_of_sequence(fs, symbols) == FirstScan(fs, symbols, 1)

\* the first_sets map before the loop of compute_first_sets
InitFirstSets ==
    [s \in Symbols |-> IF s \in Terminals THEN {s} ELSE {}]

\* Faulty variant of FirstStep: only a terminal at the head of the right-hand
\* side is added.
FirstStep_TerminalsOnly(fs, production) ==
    LET head == production.rhs[1]
        first_set == fs[production.lhs] \cup (IF head \in Terminals THEN {head} ELSE {})
    IN  IF Cardinality(first_set) > Cardinality(fs[production.lhs])
        THEN [fs EXCEPT ![production.lhs] = first_set]
        ELSE fs

\* one production's step of the loop body of compute_first_sets
FirstStep(fs, production) ==
    LET first_set == fs[production.lhs] \cup FirstScan(fs, production.rhs, 1)
    IN  IF Cardinality(first_set) > Cardinality(fs[production.lhs])
        THEN [fs EXCEPT ![production.lhs] = first_set]
        ELSE fs

\* one pass of the while loop of compute_first_sets over productions[from ..]
RECURSIVE FirstPass(_, _)
FirstPass(fs, from) ==
    IF from > Len(productions) THEN fs
    ELSE FirstPass(FirstStep(fs, productions[from]), from + 1)

\* Faulty variant of FollowStep: FOLLOW of the left-hand side is not passed on
\* to the last symbol of the right-hand side.
FollowStep_FirstOnly(fs, fo, production, i) ==
    LET symbol == production.rhs[i]
        rest == [j \in 1 .. (Len(production.rhs) - i) |-> production.rhs[i + j]]
        follow_set == IF symbol \in NonTerminals /\ rest # <<>>
                      THEN fo[symbol] \cup fs[rest[1]]
                      ELSE {}
    IN  IF symbol \in NonTerminals /\ rest # <<>>
           /\ Cardinality(follow_set) > Cardinality(fo[symbol])
        THEN [fo EXCEPT ![symbol] = follow_set]
        ELSE fo

\* the follow_sets map before the loop of compute_follow_sets
InitFollowSets ==
    [n \in NonTerminals |-> IF n = start_symbol THEN {"Eof"} ELSE {}]

\* the body of the inner loop of compute_follow_sets for rhs[i] of a production
FollowStep(fs, fo, production, i) ==
    LET symbol == production.rhs[i]
        beta == Suffix(production.rhs, i + 1)
        with_first == IF beta # <<>> THEN first_of_sequence(fs, beta) ELSE {}
        with_lhs == IF beta = <<>> \/ sequence_can_derive_epsilon(beta)
                    THEN fo[production.lhs] ELSE {}
    IN  IF symbol \in NonTerminals
        THEN LET follow_set == fo[symbol] \cup with_first \cup with_lhs
             IN  IF Cardinality(follow_set) > Cardinality(fo[symbol])
                 THEN [fo EXCEPT ![symbol] = follow_set]
                 ELSE fo
        ELSE fo

\* the inner loop of compute_follow_sets over rhs[i ..] of one production
RECURSIVE FollowRhs(_, _, _, _)
FollowRhs(fs, fo, production, i) ==
    IF i > Len(production.rhs) THEN fo
    ELSE FollowRhs(fs, FollowStep(fs, fo, production, i), production, i + 1)

\* one pass of the while loop of compute_follow_sets over productions[from ..]
RECURSIVE FollowPass(_, _, _)
FollowPass(fs, fo, from) ==
    IF from > Len(productions) THEN fo
    ELSE FollowPass(fs, FollowRhs(fs, fo, productions[from], 1), from + 1)

-----------------------------------------------------------------------------
(* lr_table.rs: items and closure *)

\* the symbols in declaration order (the TokenType enum, then NonTerminal)
SymbolList ==
    <<"Number", "Plus", "Minus", "Star", "Slash", "LeftParen", "RightParen", "Eof",
      "Start", "Expr", "Term", "Factor">>

SymbolIndex(symbol) == CHOOSE i \in 1 .. Len(SymbolList) : SymbolList[i] = symbol

\* the number of dot positions of the longest production
DotPositions ==
    1 + (CHOOSE n \in 0 .. Len(SymbolList) :
            /\ \E i \in 1 .. Len(productions) : Len(productions[i].rhs) = n
            /\ \A i \in 1 .. Len(productions) : Len(productions[i].rhs) <= n)

\* An LrItem { production_id, dot_position, lookahead } is represented by its
\* index in the enumeration of all such triples (lookahead by its enum index);
\* the three fields are read back by the operators of their names.
LrItem(p, d, la) ==
    (p * DotPositions + d) * Cardinality(Terminals) + (SymbolIndex(la) - 1)

production_id(item) == item \div (DotPositions * Cardinality(Terminals))
dot_position(item) == (item \div Cardinality(Terminals)) % DotPositions
lookahead(item) == SymbolList[(item % Cardinality(Terminals)) + 1]

\* Option: None is the empty sequence, Some(x) the one-element sequence
None == <<>>
Some(x) == <<x>>
Unwrap(option) == option[1]

\* the symbol_after_dot of an item whose dot is at the end
NoSymbol == "None"

\* LrTable::symbol_after_dot
symbol_after_dot(item) ==
    LET rhs == Production(production_id(item)).rhs
    IN  IF dot_position(item) + 1 <= Len(rhs) THEN rhs[dot_position(item) + 1] ELSE NoSymbol

\* LrTable::symbols_after_dot
symbols_after_dot(item, skip) ==
    Suffix(Production(production_id(item)).rhs, dot_position(item) + skip + 1)

\* Faulty variants of Lookaheads: the item's own lookahead only, FIRST(beta)
\* forgotten; and the item's lookahead always added, as if beta were nullable.
Lookaheads_ItemOnly(fs, item) == {lookahead(item)}

Lookaheads_AlwaysItem(fs, item) ==
    LET beta == symbols_after_dot(item, 1)
    IN  {lookahead(item)} \cup (IF beta = <<>> THEN {} ELSE first_of_sequence(fs, beta))

\* Faulty variant of Lookaheads: beta starts at the non-terminal after the dot
\* instead of after it.
Lookaheads_FromTheDot(fs, item) ==
    first_of_sequence(fs, symbols_after_dot(item, 0))

\* the lookaheads closure() computes for the items an item adds
Lookaheads(fs, item) ==
    LET beta == symbols_after_dot(item, 1)
    IN  IF beta = <<>> THEN {lookahead(item)}
        ELSE first_of_sequence(fs, beta) \cup
             (IF \A i \in 1 .. Len(beta) : can_derive_epsilon(beta[i])
              THEN {lookahead(item)} ELSE {})

\* one pass of the while loop of closure(): the for loop runs over a snapshot
\* of the set, so the pass adds the same items in every iteration order
ClosurePass(fs, closure) ==
    closure \cup
    UNION { { LrItem(p, 0, la) : p \in productions_for(symbol_after_dot(item)),
                                 la \in Lookaheads(fs, item) }
            : item \in {it \in closure : symbol_after_dot(it) \in NonTerminals} }

\* LrTable::closure
RECURSIVE Closure(_, _)
Closure(fs, kernel) ==
    LET next == ClosurePass(fs, kernel)
    IN  IF next = kernel THEN kernel ELSE Closure(fs, next)

-----------------------------------------------------------------------------
(* Iteration order of the hash-based collections.  std::collections::HashMap  *)
(* and HashSet iterate in an order fixed by the process's random hash seed;   *)
(* the model draws the seed at start and derives the orders from it.          *)

Seeds == 0 .. (NumSeeds - 1)

\* strides coprime to the number of symbols and to the number of item keys
Strides == <<1, 7, 11, 13>>

Stride(s) == Strides[(s % Len(Strides)) + 1]

\* the order in which a map keyed by Symbol is iterated under seed s
HashOrder(s) ==
    [i \in 1 .. Len(SymbolList) |->
        SymbolList[(((i - 1) * Stride(s) + s) % Len(SymbolList)) + 1]]

ItemKeys == Len(productions) * DotPositions * Cardinality(Terminals)

\* the rank of an item in the iteration of a HashSet<LrItem> under seed s
ItemRank(s, item) ==
    (item * Stride(s) + s) % ItemKeys

-----------------------------------------------------------------------------
(* lr_table.rs: the canonical collection and the tables *)

Shift(n) == [tag |-> "Shift", arg |-> n]
Reduce(p) == [tag |-> "Reduce", arg |-> p]
Accept == [tag |-> "Accept", arg |-> 0]

EmptyMap == <<>>

\* HashMap::insert
Insert(map, key, value) ==
    [k \in (DOMAIN map) \cup {key} |-> IF k = key THEN value ELSE map[k]]

LrState(id, kernel_items, items) ==
    [id |-> id, kernel_items |-> kernel_items, items |-> items]

initial_item == LrItem(0, 0, "Eof")

\* the transitions map construct_states builds for one state: the items grouped
\* by the symbol after the dot, each with the dot moved forward
Transitions(current_items) ==
    [symbol \in {symbol_after_dot(it) : it \in current_items} \ {NoSymbol} |->
        { LrItem(production_id(it), dot_position(it) + 1, lookahead(it))
          : it \in {x \in current_items : symbol_after_dot(x) = symbol} }]

\* Faulty variant of Position: two item sets are taken for the same state when
\* they agree on productions and dot positions, whatever their lookaheads.
Position_SameCore(sts, items) ==
    LET core(set) == {<<production_id(it), dot_position(it)>> : it \in set}
    IN  IF \E i \in 1 .. Len(sts) : core(sts[i].items) = core(items)
        THEN Some((CHOOSE i \in 1 .. Len(sts) :
                      /\ core(sts[i].items) = core(items)
                      /\ \A j \in 1 .. (i - 1) : core(sts[j].items) # core(items)) - 1)
        ELSE None

\* states.iter().position(|s| s.items == new_state_items)
Position(sts, items) ==
    IF \E i \in 1 .. Len(sts) : sts[i].items = items
    THEN Some((CHOOSE i \in 1 .. Len(sts) :
                  /\ sts[i].items = items
                  /\ \A j \in 1 .. (i - 1) : sts[j].items # items) - 1)
    ELSE None

\* Faulty variant of add_transition: a transition on a non-terminal is not
\* recorded.
add_transition_TerminalsOnly(tables, from_state, symbol, to_state) ==
    IF symbol \in Terminals
    THEN [tables EXCEPT !.action_table =
              Insert(@, <<from_state, symbol>>, Shift(to_state))]
    ELSE tables

\* LrTable::add_transition on the pair of tables
add_transition(tables, from_state, symbol, to_state) ==
    IF symbol \in Terminals
    THEN [tables EXCEPT !.action_table =
              Insert(@, <<from_state, symbol>>, Shift(to_state))]
    ELSE [tables EXCEPT !.goto_table =
              Insert(@, <<from_state, symbol>>, to_state)]

\* Faulty variant of TransitionStep: a state found again is enqueued again.
TransitionStep_RequeuesExisting(fs, b, current_state_id, symbol, kernel) ==
    LET new_state_items == Closure(fs, kernel)
        existing_state == Position(b.states, new_state_items)
        state_id == Len(b.states)
    IN  IF existing_state # None
        THEN add_transition([b EXCEPT !.queue = Append(@, Unwrap(existing_state))],
                            current_state_id, symbol, Unwrap(existing_state))
        ELSE add_transition(
                 [b EXCEPT !.states = Append(@, LrState(state_id, kernel, new_state_items)),
                           !.queue = Append(@, state_id)],
                 current_state_id, symbol, state_id)

\* the body of "for (symbol, kernel) in transitions" for one entry; b carries
\* states, queue, action_table and goto_table
TransitionStep(fs, b, current_state_id, symbol, kernel) ==
    LET new_state_items == Closure(fs, kernel)
        existing_state == Position(b.states, new_state_items)
        state_id == Len(b.states)
    IN  IF existing_state # None
        THEN add_transition(b, current_state_id, symbol, Unwrap(existing_state))
        ELSE add_transition(
                 [b EXCEPT !.states = Append(@, LrState(state_id, kernel, new_state_items)),
                           !.queue = Append(@, state_id)],
                 current_state_id, symbol, state_id)

\* Faulty variant of TransitionLoop: only the first entry the map's iterator
\* yields is handled.
RECURSIVE TransitionLoop_FirstEntryOnly(_, _, _, _, _, _)
TransitionLoop_FirstEntryOnly(fs, b, current_state_id, transitions, order, i) ==
    IF i > Len(order) THEN b
    ELSE IF order[i] \notin DOMAIN transitions
         THEN TransitionLoop_FirstEntryOnly(fs, b, current_state_id, transitions, order, i + 1)
         ELSE TransitionStep(fs, b, current_state_id, order[i], transitions[order[i]])

\* "for (symbol, kernel) in transitions", visiting the keys in the order order[i ..]
RECURSIVE TransitionLoop(_, _, _, _, _, _)
TransitionLoop(fs, b, current_state_id, transitions, order, i) ==
    IF i > Len(order) THEN b
    ELSE IF order[i] \notin DOMAIN transitions
         THEN TransitionLoop(fs, b, current_state_id, transitions, order, i + 1)
         ELSE TransitionLoop(fs,
                  TransitionStep(fs, b, current_state_id, order[i], transitions[order[i]]),
                  current_state_id, transitions, order, i + 1)

\* Faulty variant of TableStep: every completed unit production is taken for
\* the start production.
TableStep_UnitIsAccept(at, state, item) ==
    LET production == Production(production_id(item))
    IN  IF dot_position(item) = Len(production.rhs)
        THEN IF Len(production.rhs) = 1
             THEN Insert(at, <<state.id, "Eof">>, Accept)
             ELSE Insert(at, <<state.id, lookahead(item)>>, Reduce(production.id))
        ELSE at

\* Faulty variant of TableStep: the completed start production is written as a
\* reduction like every other production.
TableStep_StartReduces(at, state, item) ==
    LET production == Production(production_id(item))
    IN  IF dot_position(item) = Len(production.rhs)
        THEN Insert(at, <<state.id, lookahead(item)>>, Reduce(production.id))
        ELSE at

\* the body of the inner loop of construct_tables for one item of a state
TableStep(at, state, item) ==
    LET production == Production(production_id(item))
    IN  IF dot_position(item) = Len(production.rhs)
        THEN IF production.id = 0
             THEN Insert(at, <<state.id, "Eof">>, Accept)
             ELSE Insert(at, <<state.id, lookahead(item)>>, Reduce(production.id))
        ELSE at

\* "for item in &state.items", visiting the items by rank under seed s
RECURSIVE ItemLoop(_, _, _, _)
ItemLoop(s, at, state, remaining) ==
    IF remaining = {} THEN at
    ELSE LET item == CHOOSE x \in remaining :
                        \A y \in remaining : ItemRank(s, x) <= ItemRank(s, y)
         IN  ItemLoop(s, TableStep(at, state, item), state, remaining \ {item})

\* one iteration of the while loop of construct_states under seed s: pop the
\* front of the queue, group its items, handle every transition
ConstructStatesStep(fs, s, b) ==
    TransitionLoop(fs, [b EXCEPT !.queue = Tail(@)], Head(b.queue),
                   Transitions(b.states[Head(b.queue) + 1].items), HashOrder(s), 1)

\* one iteration of the outer loop of construct_tables under seed s
ConstructTablesStep(s, b) ==
    LET state == b.states[b.table_index + 1]
    IN  [b EXCEPT !.action_table = ItemLoop(s, @, state, state.items),
                  !.table_index = @ + 1]

\* construct_states before its while loop: state 0 and the worklist
InitialConstruction(fs) ==
    [states |-> <<LrState(0, {initial_item}, Closure(fs, {initial_item}))>>,
     queue |-> <<0>>, table_index |-> 0,
     action_table |-> EmptyMap, goto_table |-> EmptyMap]

\* the while loop of compute_first_sets
RECURSIVE ComputeFirstSetsLoop(_)
ComputeFirstSetsLoop(fs) ==
    LET next == FirstPass(fs, 1)
    IN  IF next = fs THEN fs ELSE ComputeFirstSetsLoop(next)

\* the while loop of construct_states
RECURSIVE ConstructStatesLoop(_, _, _)
ConstructStatesLoop(fs, s, b) ==
    IF b.queue = <<>> THEN b
    ELSE ConstructStatesLoop(fs, s, ConstructStatesStep(fs, s, b))

\* the outer loop of construct_tables
RECURSIVE ConstructTablesLoop(_, _)
ConstructTablesLoop(s, b) ==
    IF b.table_index >= Len(b.states) THEN b
    ELSE ConstructTablesLoop(s, ConstructTablesStep(s, b))

\* LrTable::new(Grammar::new()) in a process whose hash seed is s
LrTableNew(s) ==
    LET fs == ComputeFirstSetsLoop(InitFirstSets)
    IN  ConstructTablesLoop(s, ConstructStatesLoop(fs, s, InitialConstruction(fs)))

\* LrTable::action
action(state, terminal) ==
    IF <<state, terminal>> \in DOMAIN action_table
    THEN Some(action_table[<<state, terminal>>]) ELSE None

\* Grammar::first
first(symbol) == first_sets[symbol]

\* Grammar::follow
follow(non_terminal) == follow_sets[non_terminal]

\* LrTable::goto
goto(state, non_terminal) ==
    IF <<state, non_terminal>> \in DOMAIN goto_table
    THEN Some(goto_table[<<state, non_terminal>>]) ELSE None

-----------------------------------------------------------------------------
(* An f64 is modelled by its class (finite, infinite, NaN), its sign and, when  *)
(* finite, its magnitude num/den in lowest terms; zero keeps its sign.  The      *)
(* rounding of a finite result is left out: the magnitude is the exact quotient. *)

RECURSIVE Gcd(_, _)
Gcd(a, b) == IF b = 0 THEN a ELSE Gcd(b, a % b)

F64Finite(neg, num, den) ==
    LET g == Gcd(num, den)
    IN  [cls |-> "fin", neg |-> neg, num |-> num \div g, den |-> den \div g]
F64Inf(neg) == [cls |-> "inf", neg |-> neg, num |-> 0, den |-> 0]
F64NaN == [cls |-> "nan", neg |-> FALSE, num |-> 0, den |-> 0]

\* the f64 of a natural number
F64Of(n) == F64Finite(FALSE, n, 1)

F64IsZero(x) == x.cls = "fin" /\ x.num = 0

\* -val
F64Neg(x) == IF x.cls = "nan" THEN x ELSE [x EXCEPT !.neg = ~@]

\* left_val + right_val
F64Add(x, y) ==
    CASE x.cls = "nan" \/ y.cls = "nan" -> F64NaN
      [] x.cls = "inf" /\ y.cls = "inf" -> IF x.neg = y.neg THEN x ELSE F64NaN
      [] x.cls = "inf" /\ y.cls = "fin" -> x
      [] x.cls = "fin" /\ y.cls = "inf" -> y
      [] x.cls = "fin" /\ y.cls = "fin" ->
            LET sx == IF x.neg THEN 0 - x.num ELSE x.num
                sy == IF y.neg THEN 0 - y.num ELSE y.num
                n == sx * y.den + sy * x.den
            IN  IF n = 0
                THEN F64Finite(x.num = 0 /\ y.num = 0 /\ x.neg /\ y.neg, 0, 1)
                ELSE F64Finite(n < 0, IF n < 0 THEN 0 - n ELSE n, x.den * y.den)

\* left_val - right_val
F64Sub(x, y) == F64Add(x, F64Neg(y))

\* left_val * right_val
F64Mul(x, y) ==
    CASE x.cls = "nan" \/ y.cls = "nan" -> F64NaN
      [] (x.cls = "inf" /\ F64IsZero(y)) \/ (F64IsZero(x) /\ y.cls = "inf") -> F64NaN
      [] x.cls = "inf" \/ y.cls = "inf" -> F64Inf(x.neg # y.neg)
      [] OTHER -> F64Finite(x.neg # y.neg, x.num * y.num, x.den * y.den)

\* left_val / right_val
F64Div(x, y) ==
    CASE x.cls = "nan" \/ y.cls = "nan" -> F64NaN
      [] x.cls = "inf" /\ y.cls = "inf" -> F64NaN
      [] x.cls = "inf" -> F64Inf(x.neg # y.neg)
      [] y.cls = "inf" -> F64Finite(x.neg # y.neg, 0, 1)
      [] F64IsZero(y) -> IF F64IsZero(x) THEN F64NaN ELSE F64Inf(x.neg # y.neg)
      [] OTHER -> F64Finite(x.neg # y.neg, x.num * y.den, x.den * y.num)

-----------------------------------------------------------------------------
(* token.rs: tokens.  A lexeme is the sequence of its characters. *)

Digits == <<"0", "1", "2", "3", "4", "5", "6", "7", "8", "9">>

\* the character a one-character token of this type is written with
TokenChar(token_type, value) ==
    CASE token_type = "Number" -> Digits[value + 1]
      [] token_type = "Plus" -> "+"
      [] token_type = "Minus" -> "-"
      [] token_type = "Star" -> "*"
      [] token_type = "Slash" -> "/"
      [] token_type = "LeftParen" -> "("
      [] token_type = "RightParen" -> ")"

\* the Token struct
Token(token_type, lexeme, value, line, column) ==
    [token_type |-> token_type, lexeme |-> lexeme, value |-> value,
     line |-> line, column |-> column]

\* Token::eof
TokenEof(line, column) == Token("Eof", <<>>, None, line, column)

\* the tokens the stream can deliver as its i-th token: the tokens of an input
\* of at most MaxLen one-character tokens on one line, then the Eof token
StreamTokens(i) ==
    {TokenEof(1, i)} \cup
    (IF i > MaxLen THEN {}
     ELSE { Token("Number", <<Digits[v + 1]>>, Some(F64Of(v)), 1, i) : v \in 0 .. MaxVal } \cup
          { Token(t, <<TokenChar(t, 0)>>, None, 1, i) : t \in Terminals \ {"Number", "Eof"} })

-----------------------------------------------------------------------------
(* error.rs: ParseResult and ParseError.  An error is a record of its kind and *)
(* of the fields of all kinds; the fields a kind does not have are empty.      *)

\* ParseResult<T>
Ok(value) == [ok |-> TRUE, value |-> Some(value), error |-> None]
Err(error) == [ok |-> FALSE, value |-> None, error |-> Some(error)]

ParseError(kind, expected, found, char, lexeme, line, column) ==
    [kind |-> kind, expected |-> expected, found |-> found, char |-> char,
     lexeme |-> lexeme, line |-> line, column |-> column]

\* ParseError::unexpected_char
unexpected_char(char, line, column) ==
    ParseError("UnexpectedChar", {}, None, Some(char), None, line, column)

\* ParseError::unexpected_token; the expected terminals are kept as a set
unexpected_token(expected, found) ==
    ParseError("UnexpectedToken", expected, Some(found), None, None, 0, 0)

\* ParseError::unexpected_eof
unexpected_eof(expected) ==
    ParseError("UnexpectedEof", expected, None, None, None, 0, 0)

\* ParseError::invalid_number
invalid_number(lexeme, line, column) ==
    ParseError("InvalidNumber", {}, None, None, Some(lexeme), line, column)

\* ParseError::division_by_zero
division_by_zero(line, column) ==
    ParseError("DivisionByZero", {}, None, None, None, line, column)

\* ParseError::syntax_error
syntax_error(line, column) ==
    ParseError("SyntaxError", {}, None, None, None, line, column)

-----------------------------------------------------------------------------
(* ast.rs: syntax trees and their evaluation *)

\* Expr::number, Expr::binary, Expr::unary
ExprNumber(value) == [node |-> "Number", value |-> value]
ExprBinary(left, op, right) == [node |-> "Binary", left |-> left, op |-> op, right |-> right]
ExprUnary(op, operand) == [node |-> "Unary", op |-> op, operand |-> operand]

\* Expr::evaluate
RECURSIVE ExprEvaluate(_)
ExprEvaluate(expr) ==
    CASE expr.node = "Number" -> expr.value
      [] expr.node = "Binary" ->
            LET left_val == ExprEvaluate(expr.left)
                right_val == ExprEvaluate(expr.right)
            IN  (CASE expr.op = "Add" -> F64Add(left_val, right_val)
                   [] expr.op = "Subtract" -> F64Sub(left_val, right_val)
                   [] expr.op = "Multiply" -> F64Mul(left_val, right_val)
                   [] expr.op = "Divide" -> F64Div(left_val, right_val))
      [] expr.node = "Unary" -> F64Neg(ExprEvaluate(expr.operand))

\* BinaryOp::symbol, UnaryOp::symbol
BinaryOpSymbol(op) ==
    CASE op = "Add" -> "+"
      [] op = "Subtract" -> "-"
      [] op = "Multiply" -> "*"
      [] op = "Divide" -> "/"

UnaryOpSymbol(op) == "-"

\* the decimal digits of a natural number
RECURSIVE NatToString(_)
NatToString(n) ==
    IF n < Len(Digits) THEN <<Digits[n + 1]>>
    ELSE Append(NatToString(n \div Len(Digits)), Digits[(n % Len(Digits)) + 1])

\* the digits of num/den < 1 after the decimal point (den divides a power of ten)
RECURSIVE FractionToString(_, _)
FractionToString(num, den) ==
    IF num = 0 THEN <<>>
    ELSE <<Digits[((num * Len(Digits)) \div den) + 1]>> \o
         FractionToString((num * Len(Digits)) % den, den)

\* f64::to_string, for the values number literals have
F64ToString(x) ==
    CASE x.cls = "nan" -> <<"N", "a", "N">>
      [] x.cls = "inf" -> (IF x.neg THEN <<"-">> ELSE <<>>) \o <<"i", "n", "f">>
      [] OTHER ->
            (IF x.neg THEN <<"-">> ELSE <<>>) \o NatToString(x.num \div x.den) \o
            (IF x.num % x.den = 0 THEN <<>>
             ELSE <<".">> \o FractionToString(x.num % x.den, x.den))

\* Faulty variant of pretty_print: the operands of a binary node are printed
\* in the wrong order.
RECURSIVE pretty_print_OperandsSwapped(_)
pretty_print_OperandsSwapped(expr) ==
    CASE expr.node = "Number" -> F64ToString(expr.value)
      [] expr.node = "Binary" ->
            <<"(">> \o pretty_print_OperandsSwapped(expr.right) \o
            <<" ", BinaryOpSymbol(expr.op), " ">> \o
            pretty_print_OperandsSwapped(expr.left) \o <<")">>
      [] expr.node = "Unary" ->
            <<"(", UnaryOpSymbol(expr.op)>> \o pretty_print_OperandsSwapped(expr.operand) \o <<")">>

\* Expr::pretty_print
RECURSIVE pretty_print(_)
pretty_print(expr) ==
    CASE expr.node = "Number" -> F64ToString(expr.value)
      [] expr.node = "Binary" ->
            <<"(">> \o pretty_print(expr.left) \o <<" ", BinaryOpSymbol(expr.op), " ">> \o
            pretty_print(expr.right) \o <<")">>
      [] expr.node = "Unary" ->
            <<"(", UnaryOpSymbol(expr.op)>> \o pretty_print(expr.operand) \o <<")">>

\* calculator::evaluate once the parse call has returned: "parser.parse(input)?"
\* hands an error on, and a tree is evaluated
LibEvaluate(parsed) ==
    IF parsed.ok THEN Ok(ExprEvaluate(Unwrap(parsed.value))) ELSE parsed

-----------------------------------------------------------------------------
(* The parser driver (the parser module) *)

\* the syntax tree a reduce by production p builds from the popped values
SemanticAction(p, popped) ==
    CASE p = 1 -> ExprBinary(popped[1], "Add", popped[3])
      [] p = 2 -> ExprBinary(popped[1], "Subtract", popped[3])
      [] p = 4 -> ExprBinary(popped[1], "Multiply", popped[3])
      [] p = 5 -> ExprBinary(popped[1], "Divide", popped[3])
      [] p = 7 -> popped[2]
      [] p = 8 -> ExprNumber(Unwrap(popped[1].value))
      [] p = 9 -> ExprUnary("Negate", popped[2])
      [] OTHER -> popped[1]

\* the terminals with an entry in the action table for a state
Expected(state) == {u \in Terminals : action(state, u) # None}

\* Faulty variant of SyntaxErrorFor: the end of input reported as a token.
SyntaxErrorFor_AlwaysToken(state, token) ==
    unexpected_token(Expected(state), token)

\* the syntax error for a token that has no action entry in a state
SyntaxErrorFor(state, token) ==
    IF token.token_type = "Eof"
    THEN unexpected_eof(Expected(state))
    ELSE unexpected_token(Expected(state), token)

\* the current terminal and the state on top of the stack
CurrentToken == tokens[Len(tokens)]
TopState == state_stack[Len(state_stack)]

-----------------------------------------------------------------------------
(* lexer.rs: the Lexer.  A string is the sequence of its characters. *)

\* the characters of the inputs: digits, the point, the operators and
\* parentheses, the four whitespace characters, and one other character
Alphabet == {"0", "1", ".", "+", "-", "*", "/", "(", ")", " ", "\t", "\r", "\n", "@"}

\* char::is_ascii_digit
is_ascii_digit(ch) == \E d \in 1 .. 10 : Digits[d] = ch

DigitValue(ch) == CHOOSE d \in 0 .. 9 : Digits[d + 1] = ch

RECURSIVE DigitsValue(_)
DigitsValue(chars) ==
    IF chars = <<>>
    THEN 0
    ELSE DigitsValue(SubSeq(chars, 1, Len(chars) - 1)) * 10 + DigitValue(chars[Len(chars)])

RECURSIVE Pow10(_)
Pow10(n) == IF n = 0 THEN 1 ELSE 10 * Pow10(n - 1)

\* str::parse::<f64> on strings of digits and points: digits with at most one
\* point, before, between or after them, are a number; anything else is not
ParseF64(lexeme) ==
    LET points == {i \in 1 .. Len(lexeme) : lexeme[i] = "."}
        digits == SelectSeq(lexeme, is_ascii_digit)
    IN  IF /\ Cardinality(points) <= 1
           /\ Len(digits) >= 1
           /\ Len(digits) + Cardinality(points) = Len(lexeme)
        THEN LET fraction == IF points = {}
                             THEN 0
                             ELSE Len(lexeme) - (CHOOSE i \in points : TRUE)
             IN  Some(F64Finite(FALSE, DigitsValue(digits), Pow10(fraction)))
        ELSE None

\* Token::new
TokenNew(token_type, lexeme, line, column) ==
    Token(token_type, lexeme,
          IF token_type = "Number" THEN ParseF64(lexeme) ELSE None,
          line, column)

\* the Lexer struct
Lexer(input, current, line, column) ==
    [input |-> input, current |-> current, line |-> line, column |-> column]

\* Lexer::new
LexerNew(input) == Lexer(input, 0, 1, 1)

\* Lexer::is_at_end
is_at_end(lx) == lx.current >= Len(lx.input)

\* Lexer::peek
peek(lx) ==
    IF lx.current < Len(lx.input) THEN Some(lx.input[lx.current + 1]) ELSE None

\* Lexer::peek_next
peek_next(lx) ==
    IF lx.current + 1 < Len(lx.input) THEN Some(lx.input[lx.current + 2]) ELSE None

\* Lexer::advance: the lexer after it and the character it returns
advance(lx) ==
    [lexer |-> [lx EXCEPT !.current = @ + 1, !.column = @ + 1],
     ch |-> lx.input[lx.current + 1]]

\* Faulty variant of skip_whitespace: a newline is skipped like a blank.
RECURSIVE skip_whitespace_NoNewline(_)
skip_whitespace_NoNewline(lx) ==
    IF peek(lx) = None
    THEN lx
    ELSE IF Unwrap(peek(lx)) \in {" ", "\t", "\r", "\n"}
         THEN skip_whitespace_NoNewline(advance(lx).lexer)
         ELSE lx

\* Lexer::skip_whitespace
RECURSIVE skip_whitespace(_)
skip_whitespace(lx) ==
    IF peek(lx) = None
    THEN lx
    ELSE LET ch == Unwrap(peek(lx))
         IN  CASE ch \in {" ", "\t", "\r"} -> skip_whitespace(advance(lx).lexer)
               [] ch = "\n" ->
                    skip_whitespace([advance(lx).lexer EXCEPT !.line = @ + 1, !.column = 1])
               [] OTHER -> lx

\* the loops of number: while the next character is a digit, advance
RECURSIVE ConsumeDigits(_)
ConsumeDigits(lx) ==
    IF peek(lx) # None /\ is_ascii_digit(Unwrap(peek(lx)))
    THEN ConsumeDigits(advance(lx).lexer)
    ELSE lx

\* Lexer::number: the lexer after it and the result it returns
number(lx, start_column) ==
    LET start == lx.current - 1
        whole == ConsumeDigits(lx)
        after == IF /\ peek(whole) = Some(".")
                    /\ peek_next(whole) # None
                    /\ is_ascii_digit(Unwrap(peek_next(whole)))
                 THEN ConsumeDigits(advance(whole).lexer)
                 ELSE whole
        lexeme == SubSeq(lx.input, start + 1, after.current)
        value == ParseF64(lexeme)
    IN  [lexer |-> after,
         result |-> IF value # None
                    THEN Ok(Token("Number", lexeme, value, after.line, start_column))
                    ELSE Err(invalid_number(lexeme, after.line, start_column))]

\* the match of next_token on the characters that are a token of their own
OperatorType(ch) ==
    CASE ch = "+" -> "Plus"
      [] ch = "-" -> "Minus"
      [] ch = "*" -> "Star"
      [] ch = "/" -> "Slash"
      [] ch = "(" -> "LeftParen"
      [] ch = ")" -> "RightParen"
      [] OTHER -> NoSymbol

\* Lexer::next_token: the lexer after it and the result it returns
next_token(lx) ==
    LET skipped == skip_whitespace(lx)
    IN  IF is_at_end(skipped)
        THEN [lexer |-> skipped, result |-> Ok(TokenEof(skipped.line, skipped.column))]
        ELSE LET start_column == skipped.column
                 advanced == advance(skipped).lexer
                 ch == advance(skipped).ch
             IN  CASE OperatorType(ch) # NoSymbol ->
                        [lexer |-> advanced,
                         result |-> Ok(TokenNew(OperatorType(ch), <<ch>>,
                                                advanced.line, start_column))]
                   [] is_ascii_digit(ch) -> number(advanced, start_column)
                   [] OTHER ->
                        [lexer |-> advanced,
                         result |-> Err(unexpected_char(ch, advanced.line, start_column))]

\* Faulty variant of TokenizeIteration: the loop of tokenize without its break.
TokenizeIteration_NoBreak(lx, toks) ==
    LET step == next_token(skip_whitespace(lx))
    IN  IF step.result.ok
        THEN [lexer |-> step.lexer, tokens |-> Append(toks, Unwrap(step.result.value)),
              result |-> None]
        ELSE [lexer |-> step.lexer, tokens |-> toks,
              result |-> Some(Err(Unwrap(step.result.error)))]

\* the body of the while loop of tokenize: the lexer and the vector after it,
\* and what tokenize returns if the body returns
TokenizeIteration(lx, toks) ==
    LET skipped == skip_whitespace(lx)
        step == next_token(skipped)
    IN  IF is_at_end(skipped)
        THEN [lexer |-> skipped, tokens |-> toks, result |-> None]
        ELSE IF step.result.ok
             THEN [lexer |-> step.lexer, tokens |-> Append(toks, Unwrap(step.result.value)),
                   result |-> None]
             ELSE [lexer |-> step.lexer, tokens |-> toks,
                   result |-> Some(Err(Unwrap(step.result.error)))]

\* Lexer::tokenize from the lexer lx with the vector toks: what it returns
RECURSIVE tokenize(_, _)
tokenize(lx, toks) ==
    IF is_at_end(lx)
    THEN Ok(Append(toks, TokenEof(lx.line, lx.column)))
    ELSE LET step == TokenizeIteration(lx, toks)
         IN  IF step.result # None THEN Unwrap(step.result)
             ELSE tokenize(step.lexer, step.tokens)

-----------------------------------------------------------------------------
(* Construction: Grammar::new and LrTable::new *)

\* the parser before Grammar::new
ParserInit ==
    /\ pc = "first"
    /\ first_sets = InitFirstSets
    /\ follow_sets = InitFollowSets
    /\ states = <<>>
    /\ queue = <<>>
    /\ table_index = 0
    /\ action_table = EmptyMap
    /\ goto_table = EmptyMap
    /\ tokens = <<>>
    /\ state_stack = <<>>
    /\ value_stack = <<>>
    /\ outcome = None
    /\ eval_result = None

\* the pipeline of the parser; no lexer runs
Init ==
    /\ ParserInit
    /\ seed \in Seeds
    /\ lexer = LexerNew(<<>>)
    /\ lexer_tokens = <<>>
    /\ lexer_result = None

\* one pass of the while loop of compute_first_sets; the pass that changes
\* nothing ends the loop
ComputeFirstSets ==
    /\ pc = "first"
    /\ first_sets' = FirstPass(first_sets, 1)
    /\ pc' = IF first_sets' = first_sets THEN "follow" ELSE "first"
    /\ UNCHANGED lexer_vars
    /\ UNCHANGED <<seed, follow_sets, states, queue, table_index, action_table, goto_table,
                   tokens, state_stack, value_stack, outcome, eval_result>>

\* one pass of the while loop of compute_follow_sets
ComputeFollowSets ==
    /\ pc = "follow"
    /\ follow_sets' = FollowPass(first_sets, follow_sets, 1)
    /\ pc' = IF follow_sets' = follow_sets THEN "new" ELSE "follow"
    /\ UNCHANGED lexer_vars
    /\ UNCHANGED <<seed, first_sets, states, queue, table_index, action_table, goto_table,
                   tokens, state_stack, value_stack, outcome, eval_result>>

\* the construction variables as one record, and back
Construction ==
    [states |-> states, queue |-> queue, table_index |-> table_index,
     action_table |-> action_table, goto_table |-> goto_table]

SetConstruction(b) ==
    /\ states' = b.states
    /\ queue' = b.queue
    /\ table_index' = b.table_index
    /\ action_table' = b.action_table
    /\ goto_table' = b.goto_table

\* LrTable::new enters construct_states: state 0 and the worklist
ConstructInitialState ==
    /\ pc = "new"
    /\ SetConstruction(InitialConstruction(first_sets))
    /\ pc' = "states"
    /\ UNCHANGED lexer_vars
    /\ UNCHANGED <<seed, first_sets, follow_sets,
                   tokens, state_stack, value_stack, outcome, eval_result>>

\* one iteration of the while loop of construct_states; when it leaves the
\* worklist empty the loop ends and construct_tables starts
ConstructStates ==
    /\ pc = "states"
    /\ queue # <<>>
    /\ SetConstruction(ConstructStatesStep(first_sets, seed, Construction))
    /\ pc' = IF queue' = <<>> THEN "tables" ELSE "states"
    /\ UNCHANGED lexer_vars
    /\ UNCHANGED <<seed, first_sets, follow_sets,
                   tokens, state_stack, value_stack, outcome, eval_result>>

\* one iteration of the outer loop of construct_tables; after the last state
\* LrTable::new returns
ConstructTables ==
    /\ pc = "tables"
    /\ table_index < Len(states)
    /\ SetConstruction(ConstructTablesStep(seed, Construction))
    /\ pc' = IF table_index' = Len(states) THEN "ready" ELSE "tables"
    /\ UNCHANGED lexer_vars
    /\ UNCHANGED <<seed, first_sets, follow_sets,
                   tokens, state_stack, value_stack, outcome, eval_result>>

\* Faulty variant of StartParse: the stacks of the previous call are kept.
StartParse_KeepStacks ==
    /\ pc \in {"ready", "evaluated"}
    /\ \E token \in StreamTokens(1) : tokens' = <<token>>
    /\ state_stack' = IF state_stack = <<>> THEN <<0>> ELSE state_stack
    /\ value_stack' = value_stack
    /\ outcome' = None
    /\ eval_result' = None
    /\ pc' = "parsing"
    /\ UNCHANGED lexer_vars
    /\ UNCHANGED <<seed, first_sets, follow_sets, states, queue, table_index,
                   action_table, goto_table>>

\* Parser::parse is called, on a new Parser or on one that has parsed before:
\* the stacks are reset and the first token is read
StartParse ==
    /\ pc \in {"ready", "evaluated"}
    /\ \E token \in StreamTokens(1) : tokens' = <<token>>
    /\ state_stack' = <<0>>
    /\ value_stack' = <<>>
    /\ outcome' = None
    /\ eval_result' = None
    /\ pc' = "parsing"
    /\ UNCHANGED lexer_vars
    /\ UNCHANGED <<seed, first_sets, follow_sets, states, queue, table_index,
                   action_table, goto_table>>

\* the call fails in the lexer: the token stream delivers a lexical error
\* instead of its first token (an input that begins with '@'), and parse
\* returns it
LexicalFailure ==
    /\ pc \in {"ready", "evaluated"}
    /\ tokens' = <<>>
    /\ state_stack' = <<0>>
    /\ value_stack' = <<>>
    /\ outcome' = Some(Err(unexpected_char("@", 1, 1)))
    /\ eval_result' = None
    /\ pc' = "error"
    /\ UNCHANGED lexer_vars
    /\ UNCHANGED <<seed, first_sets, follow_sets, states, queue, table_index,
                   action_table, goto_table>>

\* Faulty variant of ShiftStep: the next token is not read.
ShiftStep_NoRead ==
    /\ pc = "parsing"
    /\ action(TopState, CurrentToken.token_type) # None
    /\ Unwrap(action(TopState, CurrentToken.token_type)).tag = "Shift"
    /\ state_stack' = Append(state_stack,
                             Unwrap(action(TopState, CurrentToken.token_type)).arg)
    /\ value_stack' = Append(value_stack, CurrentToken)
    /\ UNCHANGED lexer_vars
    /\ UNCHANGED <<pc, seed, first_sets, follow_sets, states, queue, table_index,
                   action_table, goto_table, outcome, eval_result, tokens>>

\* action(s, t) = Shift(s'): push s' and the token, read the next token
ShiftStep ==
    /\ pc = "parsing"
    /\ action(TopState, CurrentToken.token_type) # None
    /\ Unwrap(action(TopState, CurrentToken.token_type)).tag = "Shift"
    /\ state_stack' = Append(state_stack,
                             Unwrap(action(TopState, CurrentToken.token_type)).arg)
    /\ value_stack' = Append(value_stack, CurrentToken)
    /\ \E token \in StreamTokens(Len(tokens) + 1) : tokens' = Append(tokens, token)
    /\ UNCHANGED lexer_vars
    /\ UNCHANGED <<pc, seed, first_sets, follow_sets, states, queue, table_index,
                   action_table, goto_table, outcome, eval_result>>

\* Faulty variant of ReduceStep: the values of the right-hand side stay on the
\* tree stack under the node built from them.
ReduceStep_KeepsValues ==
    /\ pc = "parsing"
    /\ action(TopState, CurrentToken.token_type) # None
    /\ Unwrap(action(TopState, CurrentToken.token_type)).tag = "Reduce"
    /\ LET p == Unwrap(action(TopState, CurrentToken.token_type)).arg
           n == Len(Production(p).rhs)
           kept == Len(state_stack) - n
           popped == SubSeq(value_stack, Len(value_stack) - n + 1, Len(value_stack))
       IN  IF kept >= 1 /\ goto(state_stack[kept], Production(p).lhs) # None
           THEN /\ state_stack' = Append(SubSeq(state_stack, 1, kept),
                                         Unwrap(goto(state_stack[kept], Production(p).lhs)))
                /\ value_stack' = Append(value_stack, SemanticAction(p, popped))
                /\ UNCHANGED <<pc, outcome>>
           ELSE /\ outcome' = Some(Err(syntax_error(CurrentToken.line, CurrentToken.column)))
                /\ pc' = "error"
                /\ UNCHANGED <<state_stack, value_stack>>
    /\ UNCHANGED lexer_vars
    /\ UNCHANGED <<seed, first_sets, follow_sets, states, queue, table_index,
                   action_table, goto_table, tokens, eval_result>>

\* action(s, t) = Reduce(p): pop len(rhs(p)) entries, build the node, push
\* goto(exposed state, lhs(p)); the current terminal stays
ReduceStep ==
    /\ pc = "parsing"
    /\ action(TopState, CurrentToken.token_type) # None
    /\ Unwrap(action(TopState, CurrentToken.token_type)).tag = "Reduce"
    /\ LET p == Unwrap(action(TopState, CurrentToken.token_type)).arg
           n == Len(Production(p).rhs)
           kept == Len(state_stack) - n
       IN  IF kept >= 1 /\ goto(state_stack[kept], Production(p).lhs) # None
           THEN /\ state_stack' = Append(SubSeq(state_stack, 1, kept),
                                         Unwrap(goto(state_stack[kept], Production(p).lhs)))
                /\ value_stack' =
                       Append(SubSeq(value_stack, 1, kept - 1),
                              SemanticAction(p, SubSeq(value_stack, kept, Len(value_stack))))
                /\ UNCHANGED <<pc, outcome>>
           ELSE /\ outcome' = Some(Err(syntax_error(CurrentToken.line, CurrentToken.column)))
                /\ pc' = "error"
                /\ UNCHANGED <<state_stack, value_stack>>
    /\ UNCHANGED lexer_vars
    /\ UNCHANGED <<seed, first_sets, follow_sets, states, queue, table_index,
                   action_table, goto_table, tokens, eval_result>>

\* action(s, t) = Accept: the remaining tree is the result
AcceptStep ==
    /\ pc = "parsing"
    /\ action(TopState, CurrentToken.token_type) = Some(Accept)
    /\ outcome' = IF value_stack # <<>>
                  THEN Some(Ok(value_stack[Len(value_stack)]))
                  ELSE Some(Err(syntax_error(CurrentToken.line, CurrentToken.column)))
    /\ pc' = IF value_stack # <<>> THEN "accept" ELSE "error"
    /\ UNCHANGED lexer_vars
    /\ UNCHANGED <<seed, first_sets, follow_sets, states, queue, table_index,
                   action_table, goto_table, tokens, state_stack, value_stack,
                   eval_result>>

\* no entry for (s, t): syntax error, the parse halts
ErrorStep ==
    /\ pc = "parsing"
    /\ action(TopState, CurrentToken.token_type) = None
    /\ outcome' = Some(Err(SyntaxErrorFor(TopState, CurrentToken)))
    /\ pc' = "error"
    /\ UNCHANGED lexer_vars
    /\ UNCHANGED <<seed, first_sets, follow_sets, states, queue, table_index,
                   action_table, goto_table, tokens, state_stack, value_stack,
                   eval_result>>

\* calculator::evaluate returns: the value of the tree, or the parse error
Evaluate ==
    /\ pc \in {"accept", "error"}
    /\ eval_result' = Some(LibEvaluate(Unwrap(outcome)))
    /\ pc' = "evaluated"
    /\ UNCHANGED lexer_vars
    /\ UNCHANGED <<seed, first_sets, follow_sets, states, queue, table_index,
                   action_table, goto_table, tokens, state_stack, value_stack,
                   outcome>>

Next ==
    \/ ComputeFirstSets
    \/ ComputeFollowSets
    \/ ConstructInitialState
    \/ ConstructStates
    \/ ConstructTables
    \/ StartParse
    \/ LexicalFailure
    \/ ShiftStep
    \/ ReduceStep
    \/ AcceptStep
    \/ ErrorStep
    \/ Evaluate

Spec == Init /\ [][Next]_vars

-----------------------------------------------------------------------------
(* Lexer::tokenize on the strings of at most MaxChars characters *)

Inputs == UNION {[1 .. n -> Alphabet] : n \in 0 .. MaxChars}

parser_vars == <<pc, seed, first_sets, follow_sets, states, queue, table_index,
                 action_table, goto_table, tokens, state_stack, value_stack,
                 outcome, eval_result>>

\* Lexer::new(input) and the entry of tokenize
InitLex ==
    /\ ParserInit
    /\ seed = 0
    /\ lexer \in {LexerNew(input) : input \in Inputs}
    /\ lexer_tokens = <<>>
    /\ lexer_result = None

\* one iteration of the while loop of tokenize
TokenizeStep ==
    /\ lexer_result = None
    /\ ~is_at_end(lexer)
    /\ LET step == TokenizeIteration(lexer, lexer_tokens)
       IN  /\ lexer' = step.lexer
           /\ lexer_tokens' = step.tokens
           /\ lexer_result' = step.result
    /\ UNCHANGED parser_vars

\* the end of tokenize, after the loop: push the Eof token and return
TokenizeReturn ==
    /\ lexer_result = None
    /\ is_at_end(lexer)
    /\ lexer_tokens' = Append(lexer_tokens, TokenEof(lexer.line, lexer.column))
    /\ lexer_result' = Some(Ok(lexer_tokens'))
    /\ UNCHANGED lexer
    /\ UNCHANGED parser_vars

NextLex ==
    \/ TokenizeStep
    \/ TokenizeReturn

SpecLex == InitLex /\ [][NextLex]_vars

-----------------------------------------------------------------------------
(* Properties of the parse of a token sequence *)

TokenTypes(toks) == [i \in 1 .. Len(toks) |-> toks[i].token_type]

IsPrefix(a, b) == Len(a) <= Len(b) /\ SubSeq(b, 1, Len(a)) = a

\* the parse call has returned a tree
Accepted == outcome # None /\ Unwrap(outcome).ok
Tree == Unwrap(Unwrap(outcome).value)
Error == Unwrap(Unwrap(outcome).error)
\* the parse call has returned a lexical error / an error of the driver
LexicallyRejected == outcome # None /\ ~Unwrap(outcome).ok /\ Error.kind = "UnexpectedChar"
Rejected == outcome # None /\ ~Unwrap(outcome).ok /\ Error.kind # "UnexpectedChar"

\* the literal the i-th token stands for, and the operator of an operator token
Operand(i) == ExprNumber(Unwrap(tokens[i].value))
OperatorOf(token_type) ==
    CASE token_type = "Plus" -> "Add"
      [] token_type = "Minus" -> "Subtract"
      [] token_type = "Star" -> "Multiply"
      [] token_type = "Slash" -> "Divide"

AdditiveTokens == {"Plus", "Minus"}
MultiplicativeTokens == {"Star", "Slash"}

\* the parse of the token types `input` (closed by Eof) is not rejected, and
\* when it has been accepted `holds` is true of the result
ParseOf(input, holds) ==
    /\ ~(Rejected /\ IsPrefix(TokenTypes(tokens), input))
    /\ (Accepted /\ TokenTypes(tokens) = input) => holds

(* The language of the arithmetic grammar, written out as in the statement:  *)
(* E -> E+T | E-T | T,  T -> T*F | T/F | F,  F -> (E) | number | -F.         *)
ArithmeticRules ==
    { <<"Expr", <<"Expr", "Plus", "Term">> >>, <<"Expr", <<"Expr", "Minus", "Term">> >>,
      <<"Expr", <<"Term">> >>,
      <<"Term", <<"Term", "Star", "Factor">> >>, <<"Term", <<"Term", "Slash", "Factor">> >>,
      <<"Term", <<"Factor">> >>,
      <<"Factor", <<"LeftParen", "Expr", "RightParen">> >>, <<"Factor", <<"Number">> >>,
      <<"Factor", <<"Minus", "Factor">> >> }

\* the terminal strings of at most MaxLen symbols that rhs[i ..] derives, given
\* the strings L[N] known to be derivable from each non-terminal N
RECURSIVE DerivedFrom(_, _, _)
DerivedFrom(L, rhs, i) ==
    IF i > Len(rhs) THEN {<<>>}
    ELSE LET heads == IF rhs[i] \in DOMAIN L THEN L[rhs[i]] ELSE {<<rhs[i]>>}
             tails == DerivedFrom(L, rhs, i + 1)
         IN  {w \in {a \o b : a \in heads, b \in tails} : Len(w) <= MaxLen}

RECURSIVE Derivable(_)
Derivable(L) ==
    LET next == [N \in DOMAIN L |->
                    L[N] \cup UNION {DerivedFrom(L, r[2], 1) : r \in {x \in ArithmeticRules : x[1] = N}}]
    IN  IF next = L THEN L ELSE Derivable(next)

\* the token sequences of at most MaxLen tokens derivable from Expr
Sentences == Derivable([N \in {"Expr", "Term", "Factor"} |-> {}])["Expr"]

\* the prefixes of the sentences closed by Eof
SentencePrefixes ==
    UNION { {SubSeq(Append(w, "Eof"), 1, k) : k \in 0 .. (Len(w) + 1)} : w \in Sentences }

\* C1: a token sequence closed by Eof is accepted if and only if its tokens
\* before the Eof are derivable from Expr; every other sequence ends in a
\* syntax error.  (The run on a sequence is the run on its tokens up to the
\* one the driver stops at: an accepted run has read a sentence and its Eof, a
\* rejected run has read a prefix that no sentence closed by Eof starts with,
\* so no sentence is rejected and no other sequence accepted.)
C1_AcceptIffDerivable ==
    /\ Accepted => /\ tokens[Len(tokens)].token_type = "Eof"
                   /\ SubSeq(TokenTypes(tokens), 1, Len(tokens) - 1) \in Sentences
    /\ Rejected => /\ TokenTypes(tokens) \notin SentencePrefixes
                   /\ Error.kind \in {"UnexpectedToken", "UnexpectedEof"}

C1_Witness ==
    /\ pc = "accept"
    /\ TokenTypes(tokens) = <<"LeftParen", "Number", "Minus", "Number", "RightParen", "Eof">>

\* C2: 'a p b m c' with p additive and m multiplicative parses to
\* Binary(a, p, Binary(b, m, c)), printed '(a p (b m c))', and 'a m b p c'
\* parses to Binary(Binary(a, m, b), p, c).
C2_Precedence ==
    \A p \in AdditiveTokens, m \in MultiplicativeTokens :
        /\ ParseOf(<<"Number", p, "Number", m, "Number", "Eof">>,
              /\ Tree = ExprBinary(Operand(1), OperatorOf(p),
                                   ExprBinary(Operand(3), OperatorOf(m), Operand(5)))
              /\ pretty_print(Tree) =
                    <<"(">> \o tokens[1].lexeme \o <<" ">> \o tokens[2].lexeme \o <<" ", "(">> \o
                    tokens[3].lexeme \o <<" ">> \o tokens[4].lexeme \o <<" ">> \o
                    tokens[5].lexeme \o <<")", ")">>)
        /\ ParseOf(<<"Number", m, "Number", p, "Number", "Eof">>,
              Tree = ExprBinary(ExprBinary(Operand(1), OperatorOf(m), Operand(3)),
                                OperatorOf(p), Operand(5)))

C2_Witness ==
    /\ pc = "accept"
    /\ TokenTypes(tokens) = <<"Number", "Minus", "Number", "Slash", "Number", "Eof">>
    /\ Tree.op = "Subtract"
    /\ Tree.right.op = "Divide"

\* C3: 'a o1 b o2 c' with o1 and o2 of the same precedence level parses to
\* Binary(Binary(a, o1, b), o2, c).
C3_LeftAssociative ==
    \A level \in {AdditiveTokens, MultiplicativeTokens} :
        \A o1 \in level, o2 \in level :
            ParseOf(<<"Number", o1, "Number", o2, "Number", "Eof">>,
                Tree = ExprBinary(ExprBinary(Operand(1), OperatorOf(o1), Operand(3)),
                                  OperatorOf(o2), Operand(5)))

C3_Witness ==
    /\ pc = "accept"
    /\ TokenTypes(tokens) = <<"Number", "Minus", "Number", "Minus", "Number", "Eof">>
    /\ Tree.left.node = "Binary"
    /\ Tree.right.node = "Number"

\* C4: '- a o b' parses to Binary(Unary(Negate, a), o, b) for every binary
\* operator o, and a unary minus is accepted after a binary operator and after
\* another unary minus.
C4_UnaryMinusBindsTighter ==
    /\ \A o \in AdditiveTokens \cup MultiplicativeTokens :
          /\ ParseOf(<<"Minus", "Number", o, "Number", "Eof">>,
                Tree = ExprBinary(ExprUnary("Negate", Operand(2)), OperatorOf(o), Operand(4)))
          /\ ParseOf(<<"Number", o, "Minus", "Number", "Eof">>,
                Tree = ExprBinary(Operand(1), OperatorOf(o), ExprUnary("Negate", Operand(4))))
    /\ ParseOf(<<"Minus", "Minus", "Number", "Eof">>,
          Tree = ExprUnary("Negate", ExprUnary("Negate", Operand(3))))

C4_Witness ==
    /\ pc = "accept"
    /\ TokenTypes(tokens) = <<"Minus", "Number", "Star", "Number", "Eof">>
    /\ Tree.node = "Binary"
    /\ Tree.left.node = "Unary"

-----------------------------------------------------------------------------
(* Properties of the construction and of errors *)

\* C5: a second run of LrTable::new(Grammar::new()), under any hash seed,
\* gives every state the id this run gave it and builds equal tables.
C5_SameIdsAndTablesInEveryRun ==
    pc = "ready" =>
        \A s \in Seeds :
            LET other == LrTableNew(s)
            IN  /\ Len(other.states) = Len(states)
                /\ \A i \in 1 .. Len(states) :
                      /\ other.states[i].id = states[i].id
                      /\ other.states[i].items = states[i].items
                /\ other.action_table = action_table
                /\ other.goto_table = goto_table

\* a run whose state ids and goto table another seed does not reproduce
C5_Witness ==
    /\ pc = "ready"
    /\ \E s \in Seeds :
          /\ LrTableNew(s).goto_table # goto_table
          /\ \E i \in 1 .. Len(states) : LrTableNew(s).states[i].items # states[i].items

\* some Divide node of the tree has a right operand that evaluates to zero
RECURSIVE DividesByZero(_)
DividesByZero(expr) ==
    CASE expr.node = "Binary" ->
            \/ expr.op = "Divide" /\ F64IsZero(ExprEvaluate(expr.right))
            \/ DividesByZero(expr.left)
            \/ DividesByZero(expr.right)
      [] expr.node = "Unary" -> DividesByZero(expr.operand)
      [] OTHER -> FALSE

\* C6: an input whose tree divides by zero parses, and evaluate() returns the
\* DivisionByZero error with the line and column of a '/' token of the input.
C6_DivisionByZeroIsAnError ==
    (pc = "evaluated" /\ Accepted /\ DividesByZero(Tree)) =>
        /\ ~Unwrap(eval_result).ok
        /\ \E i \in 1 .. Len(tokens) :
              /\ tokens[i].token_type = "Slash"
              /\ Unwrap(Unwrap(eval_result).error) =
                     division_by_zero(tokens[i].line, tokens[i].column)

\* evaluate() of an input that divides by zero returns an Ok value
C6_Witness ==
    /\ pc = "evaluated"
    /\ Accepted
    /\ DividesByZero(Tree)
    /\ TokenTypes(tokens) = <<"Number", "Slash", "Number", "Eof">>
    /\ Unwrap(eval_result).ok
    /\ Unwrap(Unwrap(eval_result).value).cls \in {"inf", "nan"}

\* the indices of the states that hold a completed item of production 0
AcceptingStates ==
    {i \in 1 .. Len(states) :
        \E item \in states[i].items :
            production_id(item) = 0 /\ dot_position(item) = Len(Production(0).rhs)}

\* C7: the constructed action table has exactly one Accept entry; it is at
\* (s, Eof) for the single state s that holds the item (0, 1, Eof), and no
\* other state holds a completed item of production 0.
C7_ExactlyOneAccept ==
    pc = "ready" =>
        LET accepts == {k \in DOMAIN action_table : action_table[k] = Accept}
            holders == {i \in 1 .. Len(states) : LrItem(0, 1, "Eof") \in states[i].items}
        IN  /\ Cardinality(accepts) = 1
            /\ Cardinality(holders) = 1
            /\ AcceptingStates = holders
            /\ \A i \in holders : accepts = {<<states[i].id, "Eof">>}

C7_Witness ==
    /\ pc = "ready"
    /\ \E k \in DOMAIN action_table : action_table[k] = Accept
    /\ AcceptingStates # {}

\* C8: a parse that finds no action entry for (top state s, current terminal)
\* stops there: no driver step follows, the stack top and the terminal are
\* still the pair without entry, and the expected set of the error is exactly
\* the set of terminals with an entry for s; for '(' e Eof, e an expression,
\* that set is {RightParen, Plus, Minus, Star, Slash}.
C8_ErrorHaltsWithExpectedSet ==
    Rejected =>
        /\ ~ENABLED (ShiftStep \/ ReduceStep \/ AcceptStep \/ ErrorStep)
        /\ <<TopState, CurrentToken.token_type>> \notin DOMAIN action_table
        /\ Error.expected =
              {u \in Terminals : <<TopState, u>> \in DOMAIN action_table}
        /\ (\E e \in Sentences : TokenTypes(tokens) = <<"LeftParen">> \o e \o <<"Eof">>)
              => Error.expected = {"RightParen", "Plus", "Minus", "Star", "Slash"}

C8_Witness ==
    /\ pc = "error"
    /\ TokenTypes(tokens) = <<"LeftParen", "Number", "Plus", "Number", "Eof">>
    /\ Error.expected = {"RightParen", "Plus", "Minus", "Star", "Slash"}

\* C9: when the token without action entry is the Eof token the error is
\* UnexpectedEof; when it is any other token the error is UnexpectedToken and
\* carries that token.
C9_ErrorKindByToken ==
    Rejected =>
        IF CurrentToken.token_type = "Eof"
        THEN Error.kind = "UnexpectedEof"
        ELSE Error.kind = "UnexpectedToken" /\ Error.found = Some(CurrentToken)

C9_Witness ==
    /\ pc = "error"
    /\ TokenTypes(tokens) = <<"Number", "Plus", "Eof">>
    /\ Error.kind = "UnexpectedEof"

-----------------------------------------------------------------------------
(* Properties of the lexer *)

Whitespace == {" ", "\t", "\r", "\n"}

\* the type and the lexeme of a token agree: an operator or a parenthesis is
\* its one character, a number is digits with at most one point between them
WellFormed(token) ==
    IF token.token_type = "Number"
    THEN LET lexeme == token.lexeme
             points == {i \in 1 .. Len(lexeme) : lexeme[i] = "."}
         IN  /\ Len(lexeme) >= 1
             /\ \A i \in 1 .. Len(lexeme) : lexeme[i] = "." \/ is_ascii_digit(lexeme[i])
             /\ Cardinality(points) <= 1
             /\ 1 \notin points /\ Len(lexeme) \notin points
             /\ token.value # None
    ELSE /\ token.token_type \in {"Plus", "Minus", "Star", "Slash", "LeftParen", "RightParen"}
         /\ token.lexeme = <<TokenChar(token.token_type, 0)>>
         /\ token.value = None

\* the characters of input from index pos on are the lexemes of toks in order,
\* with nothing but whitespace before, between and after them, and every
\* number is the whole number written there
RECURSIVE TokensOfInput(_, _, _)
TokensOfInput(input, toks, pos) ==
    IF pos <= Len(input) /\ input[pos] \in Whitespace
    THEN TokensOfInput(input, toks, pos + 1)
    ELSE IF toks = <<>>
         THEN pos > Len(input)
         ELSE LET token == Head(toks)
                  end == pos + Len(token.lexeme) - 1
              IN  /\ WellFormed(token)
                  /\ end <= Len(input)
                  /\ SubSeq(input, pos, end) = token.lexeme
                  /\ token.token_type = "Number" =>
                        /\ ~(end < Len(input) /\ is_ascii_digit(input[end + 1]))
                        /\ ~(/\ "." \notin {token.lexeme[i] : i \in 1 .. Len(token.lexeme)}
                             /\ end + 1 < Len(input)
                             /\ input[end + 1] = "."
                             /\ is_ascii_digit(input[end + 2]))
                  /\ TokensOfInput(input, Tail(toks), end + 1)

\* C10: when tokenize succeeds, the vector it returns has exactly one Eof
\* token, its last element, and the tokens before it are, in the order of the
\* input, the number, operator and parenthesis tokens of the input without
\* its whitespace.
C10_TokenizeEndsWithOneEof ==
    (lexer_result # None /\ Unwrap(lexer_result).ok) =>
        LET toks == Unwrap(Unwrap(lexer_result).value)
        IN  /\ Len(toks) >= 1
            /\ {i \in 1 .. Len(toks) : toks[i].token_type = "Eof"} = {Len(toks)}
            /\ TokensOfInput(lexer.input, SubSeq(toks, 1, Len(toks) - 1), 1)

C10_Witness ==
    /\ lexer_result # None
    /\ Unwrap(lexer_result).ok
    /\ lexer.input = <<"1", "\n", "+">>
    /\ TokenTypes(Unwrap(Unwrap(lexer_result).value)) = <<"Number", "Plus", "Eof">>

-----------------------------------------------------------------------------
(* Properties of lexical errors *)

\* the characters that are a token of their own
OperatorChars == {"+", "-", "*", "/", "(", ")"}

\* the 1-based line and column of the character at index i of input
LineOf(input, i) == 1 + Cardinality({j \in 1 .. i - 1 : input[j] = "\n"})
ColumnOf(input, i) ==
    LET newlines == {j \in 1 .. i - 1 : input[j] = "\n"}
    IN  IF newlines = {}
        THEN i
        ELSE i - (CHOOSE j \in newlines : \A k \in newlines : k <= j)

\* the index of the first digit of the run of digits that ends at index i
RECURSIVE RunStart(_, _)
RunStart(input, i) ==
    IF i > 1 /\ is_ascii_digit(input[i - 1]) THEN RunStart(input, i - 1) ELSE i

\* the point at index i is the decimal point of a number: digits on both
\* sides, and the digits before it are not the fraction of an earlier point
RECURSIVE DecimalPoint(_, _)
DecimalPoint(input, i) ==
    /\ input[i] = "."
    /\ i > 1 /\ is_ascii_digit(input[i - 1])
    /\ i < Len(input) /\ is_ascii_digit(input[i + 1])
    /\ LET j == RunStart(input, i - 1)
       IN  ~(j > 1 /\ input[j - 1] = "." /\ DecimalPoint(input, j - 1))

\* the indices of the characters other than whitespace, digits, operators
\* and parentheses
ForeignChars(input) ==
    {i \in 1 .. Len(input) :
        ~(input[i] \in Whitespace \/ is_ascii_digit(input[i]) \/ input[i] \in OperatorChars)}

\* tokenize has returned the UnexpectedChar error for the character at index i
\* and no tokens
FailsAt(i) ==
    /\ ~Unwrap(lexer_result).ok
    /\ Unwrap(lexer_result).value = None
    /\ Unwrap(Unwrap(lexer_result).error) =
           unexpected_char(lexer.input[i], LineOf(lexer.input, i), ColumnOf(lexer.input, i))

Least(S) == CHOOSE i \in S : \A j \in S : i <= j

\* C11 as stated: an input with a character other than whitespace, a digit,
\* an operator or a parenthesis makes tokenize return UnexpectedChar for the
\* first such character.
C11_FirstForeignCharFails ==
    (lexer_result # None /\ ForeignChars(lexer.input) # {}) =>
        FailsAt(Least(ForeignChars(lexer.input)))

\* C11: an input with a character other than whitespace, a digit, an operator
\* or a parenthesis that is not the decimal point of a number makes tokenize
\* return UnexpectedChar for the first such character, with that character,
\* its 1-based line and its 1-based column, and no tokens.
C11_FirstCharOutsideTokensFails ==
    LET outside == {i \in ForeignChars(lexer.input) : ~DecimalPoint(lexer.input, i)}
    IN  (lexer_result # None /\ outside # {}) => FailsAt(Least(outside))

C11_Witness ==
    /\ lexer_result # None
    /\ lexer.input = <<"1", "\n", "@">>
    /\ Unwrap(Unwrap(lexer_result).error) = unexpected_char("@", 2, 1)

-----------------------------------------------------------------------------
(* Properties of the reuse of a Parser *)

\* the driver run from its start on the tokens toks, as a freshly constructed
\* Parser with these tables runs it: the result of the step that accepts or
\* fails; a token sequence that ends before either gives no result
NoResult == Err(syntax_error(0, 0))

RECURSIVE Drive(_, _, _, _)
Drive(toks, i, sstack, vstack) ==
    LET token == toks[i]
        top == sstack[Len(sstack)]
        entry == action(top, token.token_type)
    IN  IF entry = None
        THEN IF i = Len(toks) THEN Err(SyntaxErrorFor(top, token)) ELSE NoResult
        ELSE CASE Unwrap(entry).tag = "Shift" ->
                    IF i < Len(toks)
                    THEN Drive(toks, i + 1, Append(sstack, Unwrap(entry).arg),
                               Append(vstack, token))
                    ELSE NoResult
               [] Unwrap(entry).tag = "Reduce" ->
                    LET p == Unwrap(entry).arg
                        kept == Len(sstack) - Len(Production(p).rhs)
                    IN  IF kept >= 1 /\ goto(sstack[kept], Production(p).lhs) # None
                        THEN Drive(toks, i,
                                   Append(SubSeq(sstack, 1, kept),
                                          Unwrap(goto(sstack[kept], Production(p).lhs))),
                                   Append(SubSeq(vstack, 1, kept - 1),
                                          SemanticAction(p, SubSeq(vstack, kept, Len(vstack)))))
                        ELSE NoResult
               [] OTHER ->
                    IF i = Len(toks) /\ vstack # <<>>
                    THEN Ok(vstack[Len(vstack)])
                    ELSE NoResult

FreshParse(toks) == Drive(toks, 1, <<0>>, <<>>)

\* C12: whatever calls came before it on the same Parser, a parse call
\* returns what a fresh Parser returns for its tokens (a lexical error is the
\* lexer's), every call starts from the stack <<0>> with nothing on the value
\* stack, and no step of a call changes the tables, the states or the grammar.
C12_ParsesAreIndependent ==
    /\ []((pc \in {"accept", "error"} /\ ~LexicallyRejected) =>
              Unwrap(outcome) = FreshParse(tokens))
    /\ [][(pc \in {"ready", "parsing", "accept", "error", "evaluated"}) =>
              /\ UNCHANGED <<action_table, goto_table, states, first_sets, follow_sets>>
              /\ (pc \in {"ready", "evaluated"} =>
                      /\ state_stack' = <<0>> /\ value_stack' = <<>>
                      /\ outcome' = None \/ LexicallyRejected')]_vars

\* a call has failed on the same Parser, its stacks are still there, and the
\* next call can start
C12_Witness ==
    /\ pc = "evaluated"
    /\ Rejected
    /\ Len(state_stack) > 1
    /\ ENABLED StartParse

-----------------------------------------------------------------------------
(* Termination of the driver *)

\* the steps of the driver loop
DriverStep == ShiftStep \/ ReduceStep \/ AcceptStep \/ ErrorStep

\* the first parse call on a Parser
FirstParse == pc = "ready" /\ StartParse

\* construction, then one parse call
NextFair ==
    \/ ComputeFirstSets
    \/ ComputeFollowSets
    \/ ConstructInitialState
    \/ ConstructStates
    \/ ConstructTables
    \/ FirstParse
    \/ ShiftStep
    \/ ReduceStep
    \/ AcceptStep
    \/ ErrorStep

\* the driver loop is sequential code: while a step is possible it is taken
SpecFair == Init /\ [][NextFair]_vars /\ WF_vars(DriverStep)

\* the symbol on whose transitions state j is entered: the symbol before the
\* dot of its kernel items (the start state has none)
AccessingSymbol(j) ==
    IF j = 0
    THEN NoSymbol
    ELSE LET item == CHOOSE item \in states[j + 1].kernel_items : TRUE
         IN  Production(production_id(item)).rhs[dot_position(item)]

\* what a reduce lowers: the height of the stack first, then the distance of
\* the top symbol from Expr on the chain number, Factor, Term, Expr
Level(X) ==
    CASE X = "Expr" -> 3
      [] X = "Term" -> 2
      [] X = "Factor" -> 1
      [] OTHER -> 0
ReduceRank(sstack) == 4 * Len(sstack) - Level(AccessingSymbol(sstack[Len(sstack)]))

\* C13: a parse that has started reaches Accept or Error; a step that neither
\* accepts nor fails either consumes a token or, leaving the input where it is,
\* lowers the rank of the stack, so no chain of reduces is unbounded; and no
\* driver step is taken after Accept or Error.
C13_EveryParseTerminates ==
    /\ (pc = "parsing") ~> (pc \in {"accept", "error"})
    /\ [][(pc = "parsing" /\ pc' = "parsing") =>
              \/ Len(tokens') = Len(tokens) + 1
              \/ tokens' = tokens /\ ReduceRank(state_stack') < ReduceRank(state_stack)]_vars
    /\ [][(pc \in {"accept", "error"}) => ~DriverStep]_vars

\* a parse that ended after a chain of three reduces on one terminal
C13_Witness ==
    /\ pc = "accept"
    /\ TokenTypes(tokens) = <<"Number", "Eof">>
    /\ state_stack # <<0>>

-----------------------------------------------------------------------------
(* Termination of the construction *)

NextConstruct ==
    \/ ComputeFirstSets
    \/ ComputeFollowSets
    \/ ConstructInitialState
    \/ ConstructStates
    \/ ConstructTables

\* Grammar::new and LrTable::new are sequential code: they keep running.
\* This is weak fairness of NextConstruct with its enabling condition written
\* out: a step of the construction is possible exactly while pc is not "ready"
\* (the loops' conditions, which C14 checks to hold while pc is in a loop).
ConstructionRuns == []<>(pc = "ready") \/ []<><<NextConstruct>>_vars

SpecConstruct == Init /\ [][NextConstruct]_vars /\ ConstructionRuns

\* the ids from..to - 1 in ascending order
IdRange(from, to) == [i \in 1 .. (to - from) |-> from + i - 1]

\* every set of the map before is within its set of the map after
Grown(before, after) == \A k \in DOMAIN before : before[k] \subseteq after[k]

\* C14: under every seed the construction reaches its end.  A pass of the
\* FIRST or FOLLOW loop only grows sets, and the loop stops exactly at the
\* pass that grows none; every state's items are what a closure pass adds
\* nothing to; the worklist holds, in order, the ids enqueued and not yet
\* dequeued, every step dequeues its head and enqueues exactly the ids of the
\* states it creates, and the loop ends with the worklist empty; while pc is
\* in a loop the loop's condition holds.
C14_ConstructionTerminates ==
    /\ <>(pc = "ready")
    /\ [][(pc = "first") =>
              /\ Grown(first_sets, first_sets')
              /\ (pc' = "first") <=> (first_sets' # first_sets)
              /\ (pc' # "first") => FirstPass(first_sets, 1) = first_sets]_vars
    /\ [][(pc = "follow") =>
              /\ Grown(follow_sets, follow_sets')
              /\ (pc' = "follow") <=> (follow_sets' # follow_sets)
              /\ (pc' # "follow") => FollowPass(first_sets, follow_sets, 1) = follow_sets]_vars
    /\ [][(pc = "states") =>
              /\ queue' = Tail(queue) \o IdRange(Len(states), Len(states'))
              /\ SubSeq(states', 1, Len(states)) = states
              /\ (pc' # "states") <=> (queue' = <<>>)]_vars
    /\ [][/\ \A i \in 1 .. Len(states') :
                ClosurePass(first_sets', states'[i].items) = states'[i].items
          /\ (pc' = "states") =>
                \E done \in 0 .. Len(states') : queue' = IdRange(done, Len(states'))
          /\ (pc' = "states") => (queue' # <<>>)
          /\ (pc' = "tables") => (table_index' < Len(states'))
          /\ (pc' \in {"tables", "ready"}) => (queue' = <<>>)]_vars

\* the construction has ended: all states made, the worklist empty
C14_Witness ==
    /\ pc = "ready"
    /\ Len(states) > 1
    /\ queue = <<>>
    /\ FirstPass(first_sets, 1) = first_sets

-----------------------------------------------------------------------------
(* Properties of FIRST and FOLLOW *)

\* the terminal strings of at most MaxLen symbols derivable from Expr, Term
\* and Factor
Language == Derivable([N \in {"Expr", "Term", "Factor"} |-> {}])

\* the terminals that begin a string derivable from the symbol X
Beginners(X) ==
    CASE X \in Terminals -> {X}
      [] X = "Start" -> {w[1] : w \in Language["Expr"] \ {<<>>}}
      [] OTHER -> {w[1] : w \in Language[X] \ {<<>>}}

\* C15: once compute_first_sets has returned, first(t) = {t} for each
\* terminal t and first(N) = {Number, LeftParen, Minus} for each non-terminal
\* N; these are the terminals that begin a string derivable from the symbol,
\* and no production's FIRST rule adds anything to them.
C15_FirstSets ==
    (pc # "first") =>
        /\ \A t \in Terminals : first(t) = {t}
        /\ \A N \in {"Start", "Expr", "Term", "Factor"} :
              first(N) = {"Number", "LeftParen", "Minus"}
        /\ \A X \in Symbols : first(X) = Beginners(X)
        /\ \A i \in 1 .. Len(productions) :
              first(productions[i].rhs[1]) \subseteq first(productions[i].lhs)
        /\ FirstPass(first_sets, 1) = first_sets
        /\ NonTerminals = {"Start", "Expr", "Term", "Factor"}
        /\ Cardinality(Terminals) = 8
        /\ Len(productions) = 10

C15_Witness ==
    /\ pc = "follow"
    /\ first("Term") = first("Factor")
    /\ first("Term") # {}

\* the strings of at most MaxLen terminals and non-terminals derivable from
\* Expr, given the set F of those known
RECURSIVE Forms(_)
Forms(F) ==
    LET step(f) == {SubSeq(f, 1, i - 1) \o r[2] \o SubSeq(f, i + 1, Len(f)) :
                        <<i, r>> \in {x \in (1 .. Len(f)) \X ArithmeticRules : f[x[1]] = x[2][1]}}
        next == F \cup {g \in UNION {step(f) : f \in F} : Len(g) <= MaxLen}
    IN  IF next = F THEN F ELSE Forms(next)

SententialForms == Forms({<<"Expr">>})

\* the terminals that come right after the non-terminal N in a string derived
\* from Expr and closed by Eof; Start is followed by the end of the input only
Followers(N) ==
    IF N = "Start" THEN {"Eof"}
    ELSE {t \in Terminals :
            \E f \in SententialForms :
                \E i \in 1 .. Len(f) : f[i] = N /\ Append(f, "Eof")[i + 1] = t}

\* the FOLLOW laws over all productions, for the family fo of sets
FollowLaws(fo) ==
    /\ "Eof" \in fo[start_symbol]
    /\ \A p \in 1 .. Len(productions) :
          \A i \in 1 .. Len(productions[p].rhs) :
              LET A == productions[p].rhs[i]
              IN  A \in NonTerminals =>
                      IF i < Len(productions[p].rhs)
                      THEN first(productions[p].rhs[i + 1]) \subseteq fo[A]
                      ELSE fo[productions[p].lhs] \subseteq fo[A]

\* C16: once compute_follow_sets has returned, follow(Start) = {Eof},
\* follow(Expr) = {Eof, Plus, Minus, RightParen} and follow(Term) =
\* follow(Factor) = {Eof, Plus, Minus, RightParen, Star, Slash}; the sets
\* satisfy the FOLLOW laws, taking a terminal out of any of them breaks a law
\* (the laws constrain each terminal on its own, so no smaller family of sets
\* satisfies them), and no set holds Number or LeftParen.
C16_FollowSets ==
    (pc \notin {"first", "follow"}) =>
        /\ follow("Start") = {"Eof"}
        /\ follow("Expr") = {"Eof", "Plus", "Minus", "RightParen"}
        /\ follow("Term") = {"Eof", "Plus", "Minus", "RightParen", "Star", "Slash"}
        /\ follow("Factor") = follow("Term")
        /\ \A N \in NonTerminals : follow(N) = Followers(N)
        /\ FollowLaws(follow_sets)
        /\ \A t \in Terminals :
              \A S \in (SUBSET {N \in NonTerminals : t \in follow(N)}) \ {{}} :
                  ~FollowLaws([N \in NonTerminals |->
                                  IF N \in S THEN follow(N) \ {t} ELSE follow(N)])
        /\ \A N \in NonTerminals : follow(N) \cap {"Number", "LeftParen"} = {}

C16_Witness ==
    /\ pc = "new"
    /\ "RightParen" \in follow("Factor")
    /\ follow("Start") = {"Eof"}

-----------------------------------------------------------------------------
(* Properties of the canonical collection *)

\* C17: a second run of LrTable::new(Grammar::new()), under any hash seed,
\* builds as many states, as many action_table entries and as many goto_table
\* entries as this run did.
C17_SameCountsInEveryRun ==
    pc = "ready" =>
        \A s \in Seeds :
            LET other == LrTableNew(s)
            IN  /\ Len(other.states) = Len(states)
                /\ Cardinality(DOMAIN other.action_table) = Cardinality(DOMAIN action_table)
                /\ Cardinality(DOMAIN other.goto_table) = Cardinality(DOMAIN goto_table)

\* a finished run whose state ids another seed's run does not reproduce
C17_Witness ==
    /\ pc = "ready"
    /\ Len(states) > 1
    /\ DOMAIN action_table # {}
    /\ DOMAIN goto_table # {}
    /\ \E s \in Seeds : LrTableNew(s).goto_table # goto_table

\* the entries that action_table and goto_table hold, as one record
Tables(at, gt) == [action_table |-> at, goto_table |-> gt]

\* every entry of the map before is an entry of the map after
Kept(before, after) ==
    \A k \in DOMAIN before : k \in DOMAIN after /\ after[k] = before[k]

\* the tables hold what add_transition wrote for every transition out of the
\* state of id from_id, and what construct_tables wrote for every item of it
WritesStand(sts, tables, from_id) ==
    LET transitions == Transitions(sts[from_id + 1].items)
    IN  \A symbol \in DOMAIN transitions :
            LET target == Position(sts, Closure(first_sets, transitions[symbol]))
            IN  /\ target # None
                /\ add_transition(tables, from_id, symbol, Unwrap(target)) = tables

ReducesStand(sts, at, from_id) ==
    \A item \in sts[from_id + 1].items : TableStep(at, sts[from_id + 1], item) = at

\* C18: no insert of construct_states or construct_tables replaces an entry
\* of action_table or goto_table by a different value: each iteration keeps
\* every entry written before it, every write of the iteration is in the
\* tables when the iteration ends, and when LrTable::new returns the tables
\* hold every shift, goto, reduce and accept ever written.
C18_NoInsertReplacesAnEntry ==
    [][/\ (pc \in {"states", "tables"}) =>
              /\ Kept(action_table, action_table')
              /\ Kept(goto_table, goto_table')
       /\ (pc = "states") =>
              WritesStand(states', Tables(action_table', goto_table'), Head(queue))
       /\ (pc = "tables") =>
              ReducesStand(states', action_table', table_index)
       /\ (pc' = "ready") =>
              \A i \in 0 .. (Len(states') - 1) :
                  /\ WritesStand(states', Tables(action_table', goto_table'), i)
                  /\ ReducesStand(states', action_table', i)]_vars

\* a finished table with a state that both shifts and reduces
C18_Witness ==
    /\ pc = "ready"
    /\ \E i \in 0 .. (Len(states) - 1) :
          /\ \E t \in Terminals : action(i, t) # None /\ Unwrap(action(i, t)).tag = "Shift"
          /\ \E t \in Terminals : action(i, t) # None /\ Unwrap(action(i, t)).tag = "Reduce"

\* the lookaheads the closure rule gives the items that the item (p, d, a)
\* requires: {a} when the non-terminal after the dot ends the right-hand side,
\* FIRST of the symbol after that non-terminal otherwise
RuleLookaheads(item) ==
    LET rhs == Production(production_id(item)).rhs
        d == dot_position(item)
    IN  IF d + 1 = Len(rhs) THEN {lookahead(item)} ELSE first(rhs[d + 2])

\* the items the closure rule requires of a set that holds the given items
Required(items) ==
    UNION { {LrItem(q, 0, b) : q \in productions_for(symbol_after_dot(item)),
                               b \in RuleLookaheads(item)}
            : item \in {it \in items : symbol_after_dot(it) \in NonTerminals} }

\* the least superset of the kernel closed under the closure rule
RECURSIVE LeastClosed(_)
LeastClosed(kernel) ==
    IF Required(kernel) \subseteq kernel THEN kernel
    ELSE LeastClosed(kernel \cup Required(kernel))

\* C19: the items of every state are the least superset of its kernel closed
\* under the closure rule: the state holds its kernel and every item the rule
\* requires of it, every item outside the kernel has dot 0 and is required by
\* an item of the state, and no smaller set does; the kernel of state 0 is the
\* single item (0, 0, Eof).
C19_ItemsAreTheLeastClosure ==
    (pc \in {"states", "tables", "ready"}) =>
        /\ \A i \in 1 .. Len(states) :
              /\ states[i].kernel_items \subseteq states[i].items
              /\ Required(states[i].items) \subseteq states[i].items
              /\ \A item \in states[i].items \ states[i].kernel_items :
                    /\ dot_position(item) = 0
                    /\ item \in Required(states[i].items)
              /\ states[i].items = LeastClosed(states[i].kernel_items)
        /\ states[1].id = 0
        /\ states[1].kernel_items = {LrItem(0, 0, "Eof")}

\* a state with an item outside its kernel whose lookahead no kernel item has
C19_Witness ==
    /\ pc = "ready"
    /\ \E i \in 2 .. Len(states) :
          \E item \in states[i].items \ states[i].kernel_items :
              \A k \in states[i].kernel_items : lookahead(k) # lookahead(item)

\* the items of the state of id i with X after the dot, the dot moved forward
Advanced(i, X) ==
    { LrItem(production_id(it), dot_position(it) + 1, lookahead(it))
      : it \in {x \in states[i + 1].items : symbol_after_dot(x) = X} }

\* the target of the transition on X out of the state of id i, if the tables
\* hold one: Shift(j) in action_table for a terminal, j in goto_table for a
\* non-terminal
Target(i, X) ==
    IF X \in Terminals
    THEN IF action(i, X) # None /\ Unwrap(action(i, X)).tag = "Shift"
         THEN Some(Unwrap(action(i, X)).arg) ELSE None
    ELSE goto(i, X)

\* C20: when LrTable::new has returned, a state has an item with the symbol X
\* after its dot if and only if the tables hold a transition on X out of it;
\* the target j is then the index of a state whose id is j and whose items
\* are the closure of the state's items with X after the dot, the dot moved
\* forward by one.
C20_TransitionsFollowTheItems ==
    (pc = "ready") =>
        \A i \in 0 .. (Len(states) - 1) :
            \A X \in Symbols :
                /\ (Advanced(i, X) # {}) <=> (Target(i, X) # None)
                /\ (Target(i, X) # None) =>
                       LET j == Unwrap(Target(i, X))
                       IN  /\ j \in 0 .. (Len(states) - 1)
                           /\ states[j + 1].id = j
                           /\ states[j + 1].items = Closure(first_sets, Advanced(i, X))
                           /\ states[j + 1].items = LeastClosed(Advanced(i, X))

\* a finished table with a transition on a terminal and one on a non-terminal
\* out of one state, the first of them back to that state
C20_Witness ==
    /\ pc = "ready"
    /\ \E i \in 0 .. (Len(states) - 1) :
          /\ Target(i, "LeftParen") = Some(i)
          /\ Target(i, "Expr") # None

-----------------------------------------------------------------------------
(* Properties of the finished tables and of the driver's stacks *)

\* the completed item of production p with lookahead a
Completed(p, a) == LrItem(p, Len(Production(p).rhs), a)

\* C21: when LrTable::new has returned, action(s, a) = Reduce(p) if and only
\* if p is not 0 and the state s holds the completed item of p with lookahead
\* a; no entry is Reduce(0); a state holds a completed item of production 0
\* if and only if its entry on Eof is Accept, that item's lookahead is Eof and
\* no other entry of the table is Accept.
C21_ReduceIffCompletedItem ==
    (pc = "ready") =>
        \A s \in 0 .. (Len(states) - 1) :
            \A a \in Terminals :
                /\ \A p \in ProductionIds :
                      (action(s, a) = Some(Reduce(p))) <=>
                          (p # 0 /\ Completed(p, a) \in states[s + 1].items)
                /\ action(s, a) # Some(Reduce(0))
                /\ (Completed(0, a) \in states[s + 1].items) =>
                       (a = "Eof" /\ action(s, "Eof") = Some(Accept))
                /\ (action(s, a) = Some(Accept)) =>
                       (a = "Eof" /\ Completed(0, "Eof") \in states[s + 1].items)

\* a finished table with a reduce entry and an accept entry
C21_Witness ==
    /\ pc = "ready"
    /\ \E s \in 0 .. (Len(states) - 1) : action(s, "Eof") = Some(Accept)
    /\ \E s \in 0 .. (Len(states) - 1) : action(s, "Star") = Some(Reduce(6))

\* the action for the top state and the current terminal is Accept
AtAccept == pc = "parsing" /\ action(TopState, CurrentToken.token_type) = Some(Accept)

\* the stacks hold one tree and, above state 0, the one state goto(0, Expr)
OneTreeLeft ==
    /\ Len(value_stack) = 1
    /\ "node" \in DOMAIN value_stack[1]
    /\ goto(0, "Expr") # None
    /\ state_stack = <<0, Unwrap(goto(0, "Expr"))>>

\* C22: when the driver reaches Accept the tree stack holds exactly one value,
\* a syntax tree, and the state stack is state 0 with goto(0, Expr) above it;
\* the parse then returns that tree and leaves the stacks as they are.
C22_AcceptLeavesOneTree ==
    /\ AtAccept => OneTreeLeft
    /\ (pc = "accept") => (Accepted /\ OneTreeLeft /\ Tree = value_stack[1])

C22_Witness ==
    /\ pc = "accept"
    /\ Tree.node = "Binary"
    /\ Tree.right.node = "Unary"
    /\ Len(tokens) = MaxLen

\* the id that the run other gives to the item set that this run's state of
\* id i holds (None if the run other has no such state)
Renamed(other, i) ==
    LET same == {j \in 0 .. (Len(other.states) - 1) :
                    other.states[j + 1].items = states[i + 1].items}
    IN  IF same = {} THEN None ELSE Some(CHOOSE j \in same : \A k \in same : j <= k)

\* an action of this run with its Shift target renamed; Reduce and Accept stay
RenamedAction(other, act) ==
    IF act.tag = "Shift" THEN Shift(Unwrap(Renamed(other, act.arg))) ELSE act

\* C23: a second run of LrTable::new(Grammar::new()), under any hash seed,
\* builds this run's automaton up to a renaming of state ids: the map from a
\* state to the second run's state with the same items is a bijection between
\* the two state lists, it keeps state 0, and it carries action_table and
\* goto_table entry by entry onto those of the second run, Shift and goto
\* targets renamed, Reduce and Accept unchanged.
C23_SameAutomatonUpToRenaming ==
    (pc = "ready") =>
        \A s \in Seeds :
            LET other == LrTableNew(s)
                ids == 0 .. (Len(states) - 1)
            IN  /\ \A i \in ids : Renamed(other, i) # None
                /\ \A i, j \in ids :
                      (Renamed(other, i) = Renamed(other, j)) => (i = j)
                /\ {Unwrap(Renamed(other, i)) : i \in ids} = 0 .. (Len(other.states) - 1)
                /\ \A i \in ids : other.states[Unwrap(Renamed(other, i)) + 1].id =
                                      Unwrap(Renamed(other, i))
                /\ Renamed(other, 0) = Some(0)
                /\ DOMAIN other.action_table =
                       {<<Unwrap(Renamed(other, k[1])), k[2]>> : k \in DOMAIN action_table}
                /\ \A k \in DOMAIN action_table :
                      other.action_table[<<Unwrap(Renamed(other, k[1])), k[2]>>] =
                          RenamedAction(other, action_table[k])
                /\ DOMAIN other.goto_table =
                       {<<Unwrap(Renamed(other, k[1])), k[2]>> : k \in DOMAIN goto_table}
                /\ \A k \in DOMAIN goto_table :
                      other.goto_table[<<Unwrap(Renamed(other, k[1])), k[2]>>] =
                          Unwrap(Renamed(other, goto_table[k]))

\* a finished run and a seed whose run numbers the states differently
C23_Witness ==
    /\ pc = "ready"
    /\ \E s \in Seeds :
          \E i \in 1 .. (Len(states) - 1) :
              /\ Renamed(LrTableNew(s), i) # None
              /\ Renamed(LrTableNew(s), i) # Some(i)

\* the action for the top state and the current terminal is Reduce(p)
AtReduce(p) ==
    pc = "parsing" /\ action(TopState, CurrentToken.token_type) = Some(Reduce(p))

\* C24: in every configuration of the driver whose action for the top state
\* and the current terminal is Reduce(p), the state stack holds at least
\* len(rhs(p)) entries above its bottom entry, state 0, and goto(the state
\* exposed by popping them, lhs(p)) is defined.
C24_ReduceNeverUnderflows ==
    \A p \in ProductionIds :
        AtReduce(p) =>
            LET n == Len(Production(p).rhs)
            IN  /\ state_stack[1] = 0
                /\ Len(state_stack) - 1 >= n
                /\ Len(value_stack) >= n
                /\ goto(state_stack[Len(state_stack) - n], Production(p).lhs) # None

\* a reduction by Expr -> Expr Plus Term inside a parenthesis
C24_Witness ==
    /\ AtReduce(1)
    /\ Len(state_stack) > 4
    /\ CurrentToken.token_type = "RightParen"

\* C25: every item (p, d, a) of every constructed state has its dot within
\* the right-hand side, 0 <= d <= len(rhs(p)), and its lookahead a in
\* follow(lhs(p)); every Reduce(p) entry of action_table is on a terminal of
\* follow(lhs(p)).
C25_LookaheadsAreFollowers ==
    (pc \in {"states", "tables", "ready"}) =>
        /\ \A i \in 1 .. Len(states) :
              \A item \in states[i].items :
                  /\ production_id(item) \in ProductionIds
                  /\ 0 <= dot_position(item)
                  /\ dot_position(item) <= Len(Production(production_id(item)).rhs)
                  /\ lookahead(item) \in follow(Production(production_id(item)).lhs)
        /\ \A k \in DOMAIN action_table :
              (action_table[k].tag = "Reduce") =>
                  k[2] \in follow(Production(action_table[k].arg).lhs)

\* a finished table with a reduction by Factor -> number on RightParen, and a
\* state with a completed item and one whose dot is inside the right-hand side
C25_Witness ==
    /\ pc = "ready"
    /\ \E k \in DOMAIN action_table : action_table[k] = Reduce(8) /\ k[2] = "RightParen"
    /\ \E i \in 1 .. Len(states) :
          /\ \E item \in states[i].items : dot_position(item) = 3
          /\ \E item \in states[i].items : dot_position(item) = 1

-----------------------------------------------------------------------------
(* Properties of printing and reading back *)

\* Parser::parse on a text: tokenize it, then run the driver on the tokens
ParseText(input) ==
    LET lexed == tokenize(LexerNew(input), <<>>)
    IN  IF lexed.ok THEN FreshParse(Unwrap(lexed.value)) ELSE lexed

\* the number of nodes of a tree
RECURSIVE NodeCount(_)
NodeCount(expr) ==
    CASE expr.node = "Number" -> 1
      [] expr.node = "Binary" -> 1 + NodeCount(expr.left) + NodeCount(expr.right)
      [] expr.node = "Unary" -> 1 + NodeCount(expr.operand)

\* C26: the tree t a parse returns is the tree that parsing pretty_print(t)
\* returns (the number literals of the model print as the digits they were
\* read from); t has one node for each number and each operator of the
\* source and none for its parentheses.
C26_PrettyPrintRoundTrip ==
    (pc = "accept") =>
        /\ ParseText(pretty_print(Tree)) = Ok(Tree)
        /\ NodeCount(Tree) =
               Cardinality({i \in 1 .. Len(tokens) :
                               tokens[i].token_type \notin {"LeftParen", "RightParen", "Eof"}})

\* a parenthesised source whose tree is a unary minus, printed as the source
\* was written
C26_Witness ==
    /\ pc = "accept"
    /\ TokenTypes(tokens) = <<"LeftParen", "Minus", "Number", "RightParen", "Eof">>
    /\ Tree = ExprUnary("Negate", Operand(3))
    /\ pretty_print(Tree) = <<"(", "-">> \o tokens[3].lexeme \o <<")">>

-----------------------------------------------------------------------------
(* impl Iterator for Lexer, drained on the strings of at most MaxChars        *)
(* characters: lexer_tokens collects the items next() yields, lexer_result    *)
(* is set when next() has returned None                                       *)

\* Faulty variant of iterator_next: the whitespace is skipped before the end
\* of the input is tested.
iterator_next_SkipsWhitespaceFirst(lx) ==
    IF is_at_end(skip_whitespace(lx))
    THEN [lexer |-> skip_whitespace(lx), item |-> None]
    ELSE [lexer |-> next_token(lx).lexer, item |-> Some(next_token(lx).result)]

\* Iterator::next: the lexer after it and the item it returns
iterator_next(lx) ==
    IF is_at_end(lx)
    THEN [lexer |-> lx, item |-> None]
    ELSE [lexer |-> next_token(lx).lexer, item |-> Some(next_token(lx).result)]

\* a call of next() that yields an item
IteratorYield ==
    /\ lexer_result = None
    /\ iterator_next(lexer).item # None
    /\ lexer' = iterator_next(lexer).lexer
    /\ lexer_tokens' = Append(lexer_tokens, Unwrap(iterator_next(lexer).item))
    /\ UNCHANGED lexer_result
    /\ UNCHANGED parser_vars

\* the call of next() that returns None: the iterator is drained
IteratorEnd ==
    /\ lexer_result = None
    /\ iterator_next(lexer).item = None
    /\ lexer' = iterator_next(lexer).lexer
    /\ lexer_result' = Some(Ok(lexer_tokens))
    /\ UNCHANGED lexer_tokens
    /\ UNCHANGED parser_vars

NextIter ==
    \/ IteratorYield
    \/ IteratorEnd

SpecIter == InitLex /\ [][NextIter]_vars

\* the iterator is drained
Drained == lexer_result # None

\* the tokens among the items, in the order they were yielded
RECURSIVE YieldedTokens(_)
YieldedTokens(items) ==
    IF items = <<>> THEN <<>>
    ELSE (IF Head(items).ok THEN <<Unwrap(Head(items).value)>> ELSE <<>>) \o
         YieldedTokens(Tail(items))

IsNotEof(token) == token.token_type # "Eof"

\* what tokenize returns on the input of the lexer, and its tokens (none when
\* it returns an error)
Tokenized == tokenize(LexerNew(lexer.input), <<>>)
TokenizedTokens == IF Tokenized.ok THEN Unwrap(Tokenized.value) ELSE <<>>

\* whitespace is left unread after the last token of the input
EndsInWhitespace ==
    lexer.input # <<>> /\ lexer.input[Len(lexer.input)] \in Whitespace

\* the iterator yields Eof, once and as its last item, exactly when the input
\* ends in whitespace; the Eof is the one tokenize closes its vector with
EofOnlyAfterWhitespace ==
    LET eofs == {i \in 1 .. Len(lexer_tokens) :
                    lexer_tokens[i].ok /\ ~IsNotEof(Unwrap(lexer_tokens[i].value))}
    IN  /\ EndsInWhitespace => eofs = {Len(lexer_tokens)}
        /\ ~EndsInWhitespace => eofs = {}
        /\ lexer.input = <<>> => lexer_tokens = <<>>
        /\ (EndsInWhitespace /\ Tokenized.ok) =>
               Unwrap(lexer_tokens[Len(lexer_tokens)].value) =
                   TokenizedTokens[Len(TokenizedTokens)]

\* C27 as stated: on every input the tokens the iterator yields, Eof apart,
\* are those of tokenize(), which has none when it returns an error
C27_IteratorYieldsTokensOfTokenize ==
    Drained =>
        /\ SelectSeq(YieldedTokens(lexer_tokens), IsNotEof) =
               SelectSeq(TokenizedTokens, IsNotEof)
        /\ EofOnlyAfterWhitespace

\* C27: on an input that tokenize() accepts, draining the iterator yields
\* tokens only, the same non-Eof tokens in the same order as tokenize(); on an
\* input that tokenize() rejects, the first error the iterator yields is the
\* error tokenize() returns, and the iterator goes on behind it.  On every
\* input it yields Eof, as its last item, only when whitespace is left unread
\* after the last token; on an empty input, or one whose last character
\* belongs to a token, it ends without yielding Eof.
C27_IteratorYieldsTokensOfAcceptedInput ==
    Drained =>
        /\ Tokenized.ok =>
               /\ \A i \in 1 .. Len(lexer_tokens) : lexer_tokens[i].ok
               /\ SelectSeq(YieldedTokens(lexer_tokens), IsNotEof) =
                      SelectSeq(TokenizedTokens, IsNotEof)
        /\ ~Tokenized.ok =>
               LET errors == {i \in 1 .. Len(lexer_tokens) : ~lexer_tokens[i].ok}
               IN  /\ errors # {}
                   /\ lexer_tokens[Least(errors)] = Tokenized
        /\ EofOnlyAfterWhitespace

\* a drained iterator that yielded a number and then Eof for the unread space
C27_Witness ==
    /\ Drained
    /\ lexer.input = <<"1", " ">>
    /\ Len(lexer_tokens) = 2
    /\ Unwrap(lexer_tokens[2].value).token_type = "Eof"

====
